---------------------------- MODULE Spec2Model ----------------------------
(***************************************************************************)
(* A model of the crawl-and-extract engine of dm-recommender:              *)
(*   - scraper/rate_limiter.py : RateLimiter.wait, configure_rate_limiter, *)
(*                               _get_limiter, fetch                       *)
(*   - scraper/post_scraper.py : absolute_url, get_thread_list,            *)
(*                               get_thread_pages, scrape_thread           *)
(*   - scraper/user_scraper.py : extract_user_id_from_profile_url,         *)
(*                               fetch_user_profile, get_or_fetch_user     *)
(*   - run_forum_scrape.py     : scrape_single_forum                       *)
(*                                                                         *)
(* Time is an integer clock.  Strings that the code takes apart (hrefs,    *)
(* URLs) are sequences of tokens.  Python's None is the string "None".     *)
(***************************************************************************)
EXTENDS Integers, Sequences, FiniteSets, TLC

VARIABLES
    \* ---- scraper/rate_limiter.py: the clock and the process-wide limiter
    clock,          \* time.time()
    limiter_set,    \* _limiter is not None
    max_calls,      \* RateLimiter.max_calls
    period,         \* RateLimiter.period
    calls,          \* RateLimiter.calls (deque, oldest first)
    callers,        \* the threads that call RateLimiter.wait
    w_pc,           \* per caller: position inside RateLimiter.wait
    w_now,          \* per caller: the local `now`
    w_wake,         \* per caller: the time its time.sleep(sleep_for) ends
    w_blocked,      \* per caller: calls[0] it computed sleep_for from, or -1
    admitted,       \* history: every timestamp appended to calls, in order
    waits_started,  \* history: number of wait() calls started
    \* ---- scraper/rate_limiter.py: one thread's calls of fetch(url, max_retries)
    f_pc,           \* "idle", "try", "backoff", "returned" or "raised"
    attempt,        \* the loop variable of `for attempt in range(1, max_retries + 1)`
    max_retries,    \* the parameter of the running call
    f_delay,        \* the argument of the pending time.sleep
    f_error,        \* the exception a raised call ended with
    responses,      \* history: the outcome of each SESSION.get of the running call
    sleeps,         \* history: each sleep of the running call, [after, secs]
    fetches_started,\* history: number of fetch() calls started
    \* ---- scraper/post_scraper.py: get_thread_list and get_thread_pages
    walk_fn,        \* which walk runs: "list" (get_thread_list) or "pages"
    walk_pc,        \* "loop", "cards" (in the for loop), "done" (returned)
                    \* or "raised" (fetch raised)
    start_url,      \* parameter forum_url or thread_url
    site_next,      \* the site: the page each page's rel="next" link leads to, 0: none
    max_pages,      \* parameter, <<>> for None or <<n>>
    thread_limit,   \* parameter, <<>> for None or <<n>>
    page_url,       \* local
    page,           \* local
    seen,           \* local of get_thread_list
    ordered_threads,\* local and result of get_thread_list
    pages,          \* local and result of get_thread_pages
    url,            \* local of get_thread_list: the last card's absolute URL
    cards_done,     \* thread cards of the current page the for loop has taken
    walk_fetches,   \* history: number of fetch() calls the walk made
    \* ---- run_forum_scrape.py: scrape_single_forum
    r_pc,           \* "start", "loop" (top of the for loop), "thread" (inside
                    \* scrape_thread), "finished" or "fatal" (get_thread_list raised)
    thread_urls,    \* local: the result of get_thread_list
    thread_page_limit, \* parameter, <<>> for None or <<n>>
    forum_posts,    \* the posts the pages of the forum's threads hold in all
    thread_i,       \* the loop variable i of `for i, t_url in enumerate(...)`
    user_cache,     \* local: user_id -> user record, shared by all threads
    written_user_ids, \* local
    \* ---- scraper/post_scraper.py: scrape_thread
    st_pc,          \* "idle", "walk" (in get_thread_pages), "page" (top of
                    \* `for page_url in pages`), "posts" (top of `for p in
                    \* page_posts`), "resolve", "returned" or "raised"
    page_idx,       \* position of the for loop in `pages`
    posts_done,     \* history: posts the inner for loop has taken, in all
    cur_post,       \* the loop variable p, a raw post fragment
    all_posts,      \* local and result
    interactions,   \* local and result
    post_author_index, \* local: post_id -> [user_id, username]
    st_cause,       \* history: the call whose exception left scrape_thread
    resolutions,    \* history: per user_id, the number of fetch_user_profile
                    \*          calls that went to the network
    thread_results, \* history: per thread of the loop, "written" or "skipped"
    emitted,        \* history: per thread written to the four files, its
                    \*          thread_url and the numbers of rows written
    \* ---- scraper/user_scraper.py: calls of get_or_fetch_user and of
    \*      fetch_user_profile, one frame per resolver
    rs_fn,          \* the function called: "get_or_fetch_user",
                    \* "fetch_user_profile" or "none"
    rs_pc,          \* "idle", "entered", "about", "profile", "tooltip",
                    \* "store", "returned" or "raised"
    rs_url,         \* parameter profile_url
    rs_net,         \* what the site answers to the requests of this call
    rs_about,       \* local about_data: the location it holds, or None
    rs_result,      \* the value returned
    rs_fetched,     \* history: the requests of this call, in order
    rs_cache_at_call, \* history: user_cache when the call was made
    rs_calls,       \* history: calls started
    \* ---- scraper/post_scraper.py: _thread_id_from_url
    tid_calls       \* history: the calls made, each with its argument
                    \*          thread_url and the thread_id returned

limiterVars == <<clock, limiter_set, max_calls, period, calls, callers, w_pc,
                 w_now, w_wake, w_blocked, admitted, waits_started>>

fetchVars == <<f_pc, attempt, max_retries, f_delay, f_error, responses, sleeps,
               fetches_started>>

walkVars == <<walk_fn, walk_pc, start_url, site_next, max_pages, thread_limit, page_url,
              page, seen, ordered_threads, pages, url, cards_done,
              walk_fetches>>

forumVars == <<r_pc, thread_urls, thread_page_limit, forum_posts, thread_i, user_cache,
               written_user_ids, st_pc, page_idx, posts_done, cur_post,
               all_posts, interactions, post_author_index, st_cause,
               resolutions, thread_results, emitted>>

resolveVars == <<rs_fn, rs_pc, rs_url, rs_net, rs_about, rs_result,
                 rs_fetched, rs_cache_at_call, rs_calls>>

idVars == <<tid_calls>>

vars == <<limiterVars, fetchVars, walkVars, forumVars, resolveVars, idVars>>

None == "None"

Max(a, b) == IF a >= b THEN a ELSE b
Min(a, b) == IF a <= b THEN a ELSE b

(***************************************************************************)
(* Bounds of the model.                                                    *)
(***************************************************************************)
MaxTime == 4          \* Tick is enabled below this clock value
MaxWaits == 4         \* wait() calls started in one behaviour
MaxCallsBound == 2    \* max_calls ranges over 1..MaxCallsBound
MaxPeriod == 2        \* period ranges over 1..MaxPeriod
Overshoot == 1        \* time.sleep may return this much late
MaxRetriesBound == 3  \* max_retries ranges over 0..MaxRetriesBound
MaxFetches == 1       \* fetch() calls started in one behaviour
NumPages == 3         \* pages of the site
MaxPagesBound == 3    \* max_pages ranges over None, 0..MaxPagesBound
ThreadLimitBound == 2 \* thread_limit ranges over None, 0..ThreadLimitBound
MaxLinks == 2         \* thread cards on one forum index page
MaxThreads == 2       \* threads get_thread_list returns to scrape_single_forum
MaxPosts == 2         \* forum_posts of the forums scraped thread by thread
MaxThreadPages == 1   \* thread_page_limit ranges over None, 1..MaxThreadPages
MaxResolves == 2      \* calls of get_or_fetch_user or fetch_user_profile started
MaxIdCalls == 2       \* calls of _thread_id_from_url

(***************************************************************************)
(* Program constants of scraper/rate_limiter.py.                           *)
(***************************************************************************)
DEFAULT_MAX_CALLS == 1
DEFAULT_PERIOD == 2

AllCallers == {1, 2}

(* The runs of digits that occur in member URLs: the user ids. *)
Digits == {"17", "42"}

(***************************************************************************)
(* The parts of the state at rest, for the specifications that do not run  *)
(* them.                                                                   *)
(***************************************************************************)
(* No fetch() is running. *)
FetchIdle ==
    /\ f_pc = "idle"
    /\ attempt = 0
    /\ max_retries = 0
    /\ f_delay = 0
    /\ f_error = None
    /\ responses = <<>>
    /\ sleeps = <<>>
    /\ fetches_started = 0

(* No walk is running. *)
WalkIdle ==
    /\ walk_fn = "none"
    /\ walk_pc = "done"
    /\ start_url = <<>>
    /\ site_next = [p \in 1..NumPages |-> 0]
    /\ max_pages = <<>>
    /\ thread_limit = <<>>
    /\ page_url = <<>>
    /\ page = 0
    /\ seen = {}
    /\ ordered_threads = <<>>
    /\ pages = <<>>
    /\ url = <<>>
    /\ cards_done = 0
    /\ walk_fetches = 0

(* A dict with no key. *)
EmptyDict == [k \in {} |-> None]

(* A raw post fragment that is no fragment: the loop variable p outside the
   loop body. *)
NoPost == [post_id |-> None, profile_url |-> <<>>, username |-> None,
           quotes |-> <<>>, mentions |-> <<>>]

(* No user: the None that fetch_user_profile and get_or_fetch_user return. *)
NoUser == [user_id |-> None, username |-> None, profile_url |-> <<>>,
           join_date |-> None, role |-> None, replies |-> <<>>,
           location |-> None]

(* The threads that may call get_or_fetch_user or fetch_user_profile. *)
Resolvers == {1, 2}

(* The site answers no request: every fetch raises. *)
QuietNet ==
    [about |-> "fail", profile |-> "fail", tooltip |-> "fail", named |-> TRUE]

(* _thread_id_from_url has not been called. *)
IdIdle == tid_calls = <<>>

(* No call of get_or_fetch_user or fetch_user_profile is running. *)
ResolveIdle ==
    /\ rs_fn = [r \in Resolvers |-> "none"]
    /\ rs_pc = [r \in Resolvers |-> "idle"]
    /\ rs_url = [r \in Resolvers |-> <<>>]
    /\ rs_net = [r \in Resolvers |-> QuietNet]
    /\ rs_about = [r \in Resolvers |-> None]
    /\ rs_result = [r \in Resolvers |-> NoUser]
    /\ rs_fetched = [r \in Resolvers |-> <<>>]
    /\ rs_cache_at_call = [r \in Resolvers |-> EmptyDict]
    /\ rs_calls = 0

(* scrape_single_forum is not running. *)
ForumIdle ==
    /\ r_pc = "idle"
    /\ thread_urls = <<>>
    /\ thread_page_limit = <<>>
    /\ forum_posts = 0
    /\ thread_i = 0
    /\ user_cache = EmptyDict
    /\ written_user_ids = {}
    /\ st_pc = "idle"
    /\ page_idx = 0
    /\ posts_done = 0
    /\ cur_post = NoPost
    /\ all_posts = <<>>
    /\ interactions = <<>>
    /\ post_author_index = EmptyDict
    /\ st_cause = None
    /\ resolutions = [id \in Digits |-> 0]
    /\ thread_results = <<>>
    /\ emitted = <<>>

(***************************************************************************)
(* RateLimiter.wait, lines 18-20: drop the timestamps that left the        *)
(* window, `while self.calls and self.calls[0] <= now - self.period`.      *)
(***************************************************************************)
RECURSIVE Pruned(_, _, _)
Pruned(q, now, per) ==
    IF q # <<>> /\ Head(q) <= now - per
    THEN Pruned(Tail(q), now, per)
    ELSE q

(* RateLimiter.wait, line 22: the window is full. *)
WindowFull(q, mc) == Len(q) >= mc

(* A slip of SleepFor: the sign of the remaining time is reversed. *)
SleepFor_Reversed(q, now, per) == (now - Head(q)) - per

(* RateLimiter.wait, line 23: sleep_for = period - (now - calls[0]). *)
SleepFor(q, now, per) == per - (now - Head(q))

(***************************************************************************)
(* RateLimiter.wait as the steps a thread takes.  Another thread may run   *)
(* between any two of them: the code holds no lock.                        *)
(***************************************************************************)
WaitBegin(c) ==
    /\ c \in callers
    /\ w_pc[c] = "idle"
    /\ limiter_set
    /\ waits_started < MaxWaits
    /\ waits_started' = waits_started + 1
    /\ w_now' = [w_now EXCEPT ![c] = clock]
    /\ calls' = Pruned(calls, clock, period)
    /\ w_pc' = [w_pc EXCEPT ![c] = "check"]
    /\ UNCHANGED <<clock, limiter_set, max_calls, period, callers, w_wake,
                   w_blocked, admitted>>
    /\ UNCHANGED <<fetchVars, walkVars, forumVars, resolveVars, idVars>>

WaitCheck(c) ==
    /\ c \in callers
    /\ w_pc[c] = "check"
    /\ IF WindowFull(calls, max_calls)
       THEN /\ w_blocked' = [w_blocked EXCEPT ![c] = Head(calls)]
            /\ IF SleepFor(calls, w_now[c], period) > 0
               THEN /\ w_wake' = [w_wake EXCEPT
                                    ![c] = clock + SleepFor(calls, w_now[c], period)]
                    /\ w_pc' = [w_pc EXCEPT ![c] = "sleep"]
               ELSE /\ w_pc' = [w_pc EXCEPT ![c] = "append"]
                    /\ UNCHANGED w_wake
       ELSE /\ w_blocked' = [w_blocked EXCEPT ![c] = -1]
            /\ w_pc' = [w_pc EXCEPT ![c] = "append"]
            /\ UNCHANGED w_wake
    /\ UNCHANGED <<clock, limiter_set, max_calls, period, calls, callers,
                   w_now, admitted, waits_started>>
    /\ UNCHANGED <<fetchVars, walkVars, forumVars, resolveVars, idVars>>

(* time.sleep(sleep_for) returns: the clock is at or past the wake time. *)
WaitSleep(c) ==
    /\ c \in callers
    /\ w_pc[c] = "sleep"
    /\ \E late \in 0..Overshoot : clock' = Max(clock, w_wake[c] + late)
    /\ w_pc' = [w_pc EXCEPT ![c] = "append"]
    /\ UNCHANGED <<limiter_set, max_calls, period, calls, callers, w_now,
                   w_wake, w_blocked, admitted, waits_started>>
    /\ UNCHANGED <<fetchVars, walkVars, forumVars, resolveVars, idVars>>

(* line 27: self.calls.append(time.time()) *)
WaitAppend(c) ==
    /\ c \in callers
    /\ w_pc[c] = "append"
    /\ calls' = Append(calls, clock)
    /\ admitted' = Append(admitted, [at |-> clock, blocked_on |-> w_blocked[c]])
    /\ w_pc' = [w_pc EXCEPT ![c] = "idle"]
    /\ UNCHANGED <<clock, limiter_set, max_calls, period, callers, w_now,
                   w_wake, w_blocked, waits_started>>
    /\ UNCHANGED <<fetchVars, walkVars, forumVars, resolveVars, idVars>>

(* Time passes between the steps of the callers. *)
Tick ==
    /\ clock < MaxTime
    /\ clock' = clock + 1
    /\ UNCHANGED <<limiter_set, max_calls, period, calls, callers, w_pc,
                   w_now, w_wake, w_blocked, admitted, waits_started>>
    /\ UNCHANGED <<fetchVars, walkVars, forumVars, resolveVars, idVars>>

(* The limiter as RateLimiter(max_calls, period) constructs it. *)
LimiterInit(cs) ==
    /\ FetchIdle
    /\ WalkIdle
    /\ ForumIdle
    /\ ResolveIdle
    /\ IdIdle
    /\ clock = 0
    /\ limiter_set = TRUE
    /\ max_calls \in 1..MaxCallsBound
    /\ period \in 1..MaxPeriod
    /\ calls = <<>>
    /\ callers = cs
    /\ w_pc = [c \in AllCallers |-> "idle"]
    /\ w_now = [c \in AllCallers |-> 0]
    /\ w_wake = [c \in AllCallers |-> 0]
    /\ w_blocked = [c \in AllCallers |-> -1]
    /\ admitted = <<>>
    /\ waits_started = 0

LimiterNext ==
    \/ Tick
    \/ \E c \in AllCallers : WaitBegin(c)
    \/ \E c \in AllCallers : WaitCheck(c)
    \/ \E c \in AllCallers : WaitSleep(c)
    \/ \E c \in AllCallers : WaitAppend(c)

(* One sequential caller of wait(). *)
SeqLimiterInit == LimiterInit({1})
LimiterSpec == SeqLimiterInit /\ [][LimiterNext]_vars

(* Two threads calling wait() on the shared limiter. *)
ConcLimiterInit == LimiterInit(AllCallers)
ConcLimiterSpec == ConcLimiterInit /\ [][LimiterNext]_vars

(***************************************************************************)
(* scraper/rate_limiter.py: configure_rate_limiter, _get_limiter, fetch.   *)
(***************************************************************************)
NET_BACKOFF == 5      \* time.sleep(5 * attempt)
HTTP_BACKOFF == 10    \* time.sleep(10 * attempt)
FALLBACK_DELAY == 60  \* delay = 60  # fallback

(* The Retry-After header of a 429 response: absent (or empty), a string
   that is not all digits (an HTTP date), or a string of digits. *)
RetryAfterSecs == {7}
RetryAfterHeaders ==
    {[kind |-> "absent", secs |-> 0], [kind |-> "text", secs |-> 0]}
        \cup {[kind |-> "digits", secs |-> n] : n \in RetryAfterSecs}

(* What one SESSION.get can end in. *)
Outcomes ==
    {[kind |-> k, header |-> [kind |-> "absent", secs |-> 0]] :
        k \in {"neterr", "5xx", "4xx", "2xx"}}
        \cup {[kind |-> "429", header |-> h] : h \in RetryAfterHeaders}

(* A slip of Delay429: the Retry-After header is not read. *)
Delay429_HeaderIgnored(h) == FALLBACK_DELAY

(* fetch, lines 68-72: the delay after a 429. *)
Delay429(h) == IF h.kind = "digits" THEN h.secs ELSE FALLBACK_DELAY

(* _get_limiter, lines 43-48: the limiter a call of fetch uses; a first use
   without configure_rate_limiter creates the default one. *)
GetLimiter ==
    IF limiter_set
    THEN [max_calls |-> max_calls, period |-> period, calls |-> calls]
    ELSE [max_calls |-> DEFAULT_MAX_CALLS, period |-> DEFAULT_PERIOD,
          calls |-> <<>>]

(* RateLimiter.wait run to its end by a single thread at time `now`, the
   sleep returning on time: the new window and the new time. *)
WaitResult(lim, now) ==
    LET q1 == Pruned(lim.calls, now, lim.period)
        sf == IF WindowFull(q1, lim.max_calls)
              THEN SleepFor(q1, now, lim.period) ELSE 0
        t1 == IF sf > 0 THEN now + sf ELSE now
    IN  [calls |-> Append(q1, t1), clock |-> t1]

(* A slip of AfterRateLimited: a 429 leaves the attempt counter alone, the
   loop `continue`s without using up an attempt. *)
AfterRateLimited_NoCount(att) == att

(* fetch, lines 55 and 75: `continue` after a 429 goes to the next value of
   the for loop's range, as after every other retried failure. *)
AfterRateLimited(att) == att + 1

(* A slip of IsLastAttempt: no attempt is taken for the last one. *)
IsLastAttempt_Never(att, mr) == FALSE

(* fetch, lines 61 and 80: `if attempt == max_retries` raises instead of
   backing off. *)
IsLastAttempt(att, mr) == att = mr

(* A slip of IsServerError: the test is `400 <= resp.status_code`. *)
IsServerError_From400(kind) == kind \in {"4xx", "5xx"}

(* fetch, line 78: `500 <= resp.status_code < 600` *)
IsServerError(kind) == kind = "5xx"

(* configure_rate_limiter, lines 38-41: a new RateLimiter replaces _limiter. *)
Configure(mc, per) ==
    /\ f_pc = "idle"
    /\ limiter_set' = TRUE
    /\ max_calls' = mc
    /\ period' = per
    /\ calls' = <<>>
    /\ UNCHANGED <<clock, callers, w_pc, w_now, w_wake, w_blocked, admitted,
                   waits_started>>
    /\ UNCHANGED <<f_pc, attempt, max_retries, f_delay, f_error, responses,
                   sleeps, fetches_started>>
    /\ UNCHANGED <<walkVars, forumVars, resolveVars, idVars>>

(* fetch is called: the for loop starts, or ends at once when the range is
   empty (line 88). *)
FetchCall(mr) ==
    /\ f_pc = "idle"
    /\ fetches_started < MaxFetches
    /\ fetches_started' = fetches_started + 1
    /\ max_retries' = mr
    /\ attempt' = 1
    /\ responses' = <<>>
    /\ sleeps' = <<>>
    /\ f_delay' = 0
    /\ IF mr >= 1
       THEN f_pc' = "try" /\ f_error' = None
       ELSE f_pc' = "raised" /\ f_error' = "RuntimeError"
    /\ UNCHANGED <<limiterVars, walkVars, forumVars, resolveVars, idVars>>

(* One pass of the loop body, lines 56-86: wait for the limiter, issue the
   GET, and act on what came back. *)
FetchAttempt(o) ==
    /\ f_pc = "try"
    /\ LET w == WaitResult(GetLimiter, clock)
       IN  /\ limiter_set' = TRUE
           /\ max_calls' = GetLimiter.max_calls
           /\ period' = GetLimiter.period
           /\ calls' = w.calls
           /\ clock' = w.clock
    /\ responses' = Append(responses, o)
    /\ CASE o.kind = "neterr" ->
                IF IsLastAttempt(attempt, max_retries)
                THEN /\ f_pc' = "raised" /\ f_error' = "RequestException"
                     /\ UNCHANGED <<f_delay, attempt>>
                ELSE /\ f_pc' = "backoff" /\ f_delay' = NET_BACKOFF * attempt
                     /\ UNCHANGED <<f_error, attempt>>
         [] o.kind = "429" ->
                /\ f_pc' = "backoff" /\ f_delay' = Delay429(o.header)
                /\ UNCHANGED <<f_error, attempt>>
         [] o.kind \in {"5xx", "4xx", "2xx"} /\ IsServerError(o.kind) ->
                IF IsLastAttempt(attempt, max_retries)
                THEN /\ f_pc' = "raised" /\ f_error' = "HTTPError"
                     /\ UNCHANGED <<f_delay, attempt>>
                ELSE /\ f_pc' = "backoff" /\ f_delay' = HTTP_BACKOFF * attempt
                     /\ UNCHANGED <<f_error, attempt>>
         [] o.kind = "4xx" /\ ~IsServerError(o.kind) ->
                /\ f_pc' = "raised" /\ f_error' = "HTTPError"
                /\ UNCHANGED <<f_delay, attempt>>
         [] o.kind = "2xx" /\ ~IsServerError(o.kind) ->
                /\ f_pc' = "returned"
                /\ UNCHANGED <<f_delay, f_error, attempt>>
    /\ UNCHANGED <<callers, w_pc, w_now, w_wake, w_blocked, admitted,
                   waits_started>>
    /\ UNCHANGED <<max_retries, sleeps, fetches_started>>
    /\ UNCHANGED <<walkVars, forumVars, resolveVars, idVars>>

(* time.sleep(delay) returns and `continue` takes the loop to its next
   value; past the end of the range the function raises (line 88). *)
FetchBackoff ==
    /\ f_pc = "backoff"
    /\ clock' = clock + f_delay
    /\ sleeps' = Append(sleeps, [after |-> responses[Len(responses)].kind,
                                 attempt |-> attempt, secs |-> f_delay])
    /\ LET next == IF responses[Len(responses)].kind = "429"
                   THEN AfterRateLimited(attempt) ELSE attempt + 1
       IN  /\ attempt' = next
           /\ IF next > max_retries
              THEN f_pc' = "raised" /\ f_error' = "RuntimeError"
              ELSE f_pc' = "try" /\ UNCHANGED f_error
    /\ f_delay' = 0
    /\ UNCHANGED <<limiter_set, max_calls, period, calls, callers, w_pc, w_now,
                   w_wake, w_blocked, admitted, waits_started>>
    /\ UNCHANGED <<max_retries, responses, fetches_started>>
    /\ UNCHANGED <<walkVars, forumVars, resolveVars, idVars>>

(* The call is over and its frame is gone; the caller goes on. *)
FetchEnd ==
    /\ f_pc \in {"returned", "raised"}
    /\ f_pc' = "idle"
    /\ attempt' = 0
    /\ max_retries' = 0
    /\ f_delay' = 0
    /\ f_error' = None
    /\ responses' = <<>>
    /\ sleeps' = <<>>
    /\ UNCHANGED <<limiterVars, walkVars, forumVars, resolveVars, idVars>>
    /\ UNCHANGED fetches_started

(* Process start: no limiter yet, no fetch running. *)
GatewayStart ==
    /\ clock = 0
    /\ limiter_set = FALSE
    /\ max_calls = 0
    /\ period = 0
    /\ calls = <<>>
    /\ callers = {}
    /\ w_pc = [c \in AllCallers |-> "idle"]
    /\ w_now = [c \in AllCallers |-> 0]
    /\ w_wake = [c \in AllCallers |-> 0]
    /\ w_blocked = [c \in AllCallers |-> -1]
    /\ admitted = <<>>
    /\ waits_started = 0
    /\ FetchIdle

FetchInit == GatewayStart /\ WalkIdle /\ ForumIdle /\ ResolveIdle /\ IdIdle

FetchNext ==
    \/ \E mc \in 1..MaxCallsBound, per \in 1..MaxPeriod : Configure(mc, per)
    \/ \E mr \in 0..MaxRetriesBound : FetchCall(mr)
    \/ \E o \in Outcomes : FetchAttempt(o)
    \/ FetchBackoff
    \/ FetchEnd

FetchSpec == FetchInit /\ [][FetchNext]_vars

(***************************************************************************)
(* scraper/post_scraper.py: absolute_url, get_thread_list,                 *)
(* get_thread_pages.                                                       *)
(*                                                                         *)
(* An href or URL is a sequence of tokens: "http" is the four letters the  *)
(* code tests for, "/" a slash, any other token a run of other letters.    *)
(* The empty sequence is an absent (None) or empty href.                   *)
(***************************************************************************)
(* The walk's counters and the list of get_thread_pages are kept exact up to
   WalkCap, which no bounded walk reaches, and held there by a walk that
   never ends. *)
WalkCap == MaxPagesBound + NumPages + 2

BASE_URL == <<"http", "s://www.personalitycafe.com">>

PageNames == <<"page-1", "page-2", "page-3", "page-4", "page-5">>
ThreadNames == {"threads/a.1", "threads/b.2"}
Forms == {"absolute", "rooted", "bare"}

(* The href of `name` as the markup may write it. *)
Render(form, name) ==
    CASE form = "absolute" -> BASE_URL \o <<"/", name>>
      [] form = "rooted" -> <<"/", name>>
      [] form = "bare" -> <<name>>

(* str.lstrip("/") *)
RECURSIVE LStripSlash(_)
LStripSlash(href) ==
    IF href # <<>> /\ Head(href) = "/" THEN LStripSlash(Tail(href)) ELSE href

(* A slip of absolute_url: the href is returned as it is written. *)
absolute_url_AsWritten(href) == href

(* absolute_url, lines 27-32 *)
absolute_url(href) ==
    IF href # <<>> /\ Head(href) = "http"
    THEN href
    ELSE IF href # <<>> /\ Head(href) = "/"
         THEN BASE_URL \o href
         ELSE BASE_URL \o <<"/">> \o LStripSlash(href)

(* The hrefs a thread card may carry: both threads in each form, and a
   thread of another host. *)
ThreadHrefs ==
    {Render(f, t) : f \in Forms, t \in ThreadNames}
        \cup {<<"http", "://other.example", "/", "threads/a.1">>}

(* The absolute URL u as the markup may write it: whole, from the root of
   the host, or without the leading slash. *)
Written(form, u) ==
    CASE form = "absolute" -> u
      [] form = "rooted" -> SubSeq(u, 3, Len(u))
      [] form = "bare" -> SubSeq(u, 4, Len(u))

(* The pages of the forum or thread the walk starts at: page 1 is start_url
   itself, the further pages are start_url/page-2, start_url/page-3, ... *)
PageUrl(p) == IF p = 1 THEN start_url ELSE start_url \o <<"/", PageNames[p]>>
PageOf(u) == CHOOSE p \in 1..NumPages : PageUrl(p) = u

ForumUrl == Render("absolute", "forums/f.9")
ThreadSeq == <<"threads/a.1", "threads/b.2", "threads/c.3">>

(* The sites: pages numbered in the order a walk from page 1 meets them;
   the chain has `len` pages and its last page has no next link (0) or
   leads back to page `back`. *)
Sites ==
    {[p \in 1..NumPages |->
        IF p < len THEN p + 1 ELSE IF p = len THEN back ELSE 0] :
            len \in 1..NumPages, back \in 0..NumPages}

OptionalInts(n) == {<<>>} \cup {<<k>> : k \in 0..n}
IsNone(opt) == opt = <<>>
ValueOf(opt) == opt[1]

(* A slip of PageCapReached: `>` for `>=`. *)
PageCapReached_OffByOne(pg, cap) == ~IsNone(cap) /\ pg > ValueOf(cap)

(* get_thread_list and get_thread_pages, lines 161 and 188 *)
PageCapReached(pg, cap) == ~IsNone(cap) /\ pg >= ValueOf(cap)

(* A slip of IsSeen: the `seen` set is not consulted. *)
IsSeen_Never(u, seenSet) == FALSE

(* get_thread_list, line 151: `if url in seen` *)
IsSeen(u, seenSet) == u \in seenSet

(* get_thread_list, lines 155 and 158 *)
LimitReached(ordered, limit) ==
    ~IsNone(limit) /\ Len(ordered) >= ValueOf(limit)

(* The rel="next" href the server writes on page p: none on a last page. *)
NextHrefs(p) ==
    IF site_next[p] = 0
    THEN {<<>>}
    ELSE {Written(f, PageUrl(site_next[p])) : f \in Forms}

UpTo(n) == IF n < WalkCap THEN n + 1 ELSE WalkCap

(* get_thread_list, lines 136-139: the top of a pass of `while True`; the
   page is fetched and parsed. *)
ListFetch ==
    /\ walk_fn = "list"
    /\ walk_pc = "loop"
    /\ walk_fetches' = UpTo(walk_fetches)
    /\ cards_done' = 0
    /\ walk_pc' = "cards"
    /\ UNCHANGED <<walk_fn, start_url, site_next, max_pages, thread_limit, page_url, page,
                   seen, ordered_threads, pages, url>>
    /\ UNCHANGED <<limiterVars, fetchVars, forumVars, resolveVars, idVars>>

(* get_thread_list, lines 141-159: the for loop takes the page's next thread
   card, whose link is `href`; the card that fills thread_limit ends the for
   loop and, by line 158, the walk. *)
ListCard(href) ==
    /\ walk_fn = "list"
    /\ walk_pc = "cards"
    /\ cards_done < MaxLinks
    /\ cards_done' = cards_done + 1
    /\ url' = absolute_url(href)
    /\ IF IsSeen(absolute_url(href), seen)
       THEN UNCHANGED <<seen, ordered_threads, walk_pc>>
       ELSE /\ seen' = seen \cup {absolute_url(href)}
            /\ ordered_threads' = Append(ordered_threads, absolute_url(href))
            /\ walk_pc' = IF LimitReached(ordered_threads', thread_limit)
                          THEN "done" ELSE "cards"
    /\ UNCHANGED <<walk_fn, start_url, site_next, max_pages, thread_limit, page_url, page,
                   pages, walk_fetches>>
    /\ UNCHANGED <<limiterVars, fetchVars, forumVars, resolveVars, idVars>>

(* get_thread_list, lines 158-174: the page has no further card; the walk
   ends or goes to the page the rel="next" link names. *)
ListPageEnd(next_href) ==
    /\ walk_fn = "list"
    /\ walk_pc = "cards"
    /\ next_href \in NextHrefs(PageOf(page_url))
    /\ IF \/ LimitReached(ordered_threads, thread_limit)
          \/ PageCapReached(page, max_pages)
          \/ next_href = <<>>
       THEN walk_pc' = "done" /\ UNCHANGED <<page_url, page>>
       ELSE /\ page_url' = absolute_url(next_href)
            /\ page' = UpTo(page)
            /\ walk_pc' = "loop"
    /\ UNCHANGED <<walk_fn, start_url, site_next, max_pages, thread_limit, seen,
                   ordered_threads, pages, url, cards_done, walk_fetches>>
    /\ UNCHANGED <<limiterVars, fetchVars, forumVars, resolveVars, idVars>>

(* A slip of PagesAppended: the URL of the next page is not kept. *)
PagesAppended_Dropped(list, u) == list

(* get_thread_pages, line 204: `pages.append(page_url)` *)
PagesAppended(list, u) == IF Len(list) < WalkCap THEN Append(list, u) ELSE list

(* One pass of the `while True` of get_thread_pages, lines 187-205. *)
PagesPass(next_href) ==
    /\ walk_fn = "pages"
    /\ walk_pc = "loop"
    /\ IF PageCapReached(page, max_pages)
       THEN /\ walk_pc' = "done"
            /\ UNCHANGED <<page_url, page, pages, walk_fetches>>
       ELSE /\ next_href \in NextHrefs(PageOf(page_url))
            /\ walk_fetches' = UpTo(walk_fetches)
            /\ IF next_href = <<>>
               THEN walk_pc' = "done" /\ UNCHANGED <<page_url, page, pages>>
               ELSE /\ page_url' = absolute_url(next_href)
                    /\ pages' = PagesAppended(pages, absolute_url(next_href))
                    /\ page' = UpTo(page)
                    /\ UNCHANGED walk_pc
    /\ UNCHANGED <<walk_fn, start_url, site_next, max_pages, thread_limit, seen,
                   ordered_threads, url, cards_done>>
    /\ UNCHANGED <<limiterVars, fetchVars, forumVars, resolveVars, idVars>>

(* fetch(page_url) raises (lines 138 and 193): the walk ends with it. *)
WalkFetchRaises ==
    /\ walk_pc = "loop"
    /\ walk_fn = "pages" => ~PageCapReached(page, max_pages)
    /\ walk_fetches' = UpTo(walk_fetches)
    /\ walk_pc' = "raised"
    /\ UNCHANGED <<walk_fn, start_url, site_next, max_pages, thread_limit, page_url, page,
                   seen, ordered_threads, pages, url, cards_done>>
    /\ UNCHANGED <<limiterVars, fetchVars, forumVars, resolveVars, idVars>>

(* get_thread_list(ForumUrl, max_pages, thread_limit) or
   get_thread_pages(thread_url, max_pages) is called on some site. *)
WalkInit ==
    /\ GatewayStart
    /\ ForumIdle
    /\ ResolveIdle
    /\ IdIdle
    /\ walk_fn \in {"list", "pages"}
    /\ walk_pc = "loop"
    /\ start_url = IF walk_fn = "list"
                   THEN ForumUrl ELSE Render("absolute", ThreadSeq[1])
    /\ site_next \in Sites
    /\ max_pages \in OptionalInts(MaxPagesBound)
    /\ thread_limit \in IF walk_fn = "list"
                        THEN OptionalInts(ThreadLimitBound) ELSE {<<>>}
    /\ page_url = start_url
    /\ page = 1
    /\ seen = {}
    /\ ordered_threads = <<>>
    /\ pages = IF walk_fn = "pages" THEN <<start_url>> ELSE <<>>
    /\ url = <<>>
    /\ cards_done = 0
    /\ walk_fetches = 0

AnyNextHref ==
    {<<>>} \cup {Written(f, PageUrl(p)) : f \in Forms, p \in 1..NumPages}

WalkNext ==
    \/ ListFetch
    \/ \E href \in ThreadHrefs : ListCard(href)
    \/ \E h \in AnyNextHref : ListPageEnd(h)
    \/ \E h \in AnyNextHref : PagesPass(h)
    \/ WalkFetchRaises

WalkSpec == WalkInit /\ [][WalkNext]_vars

(* The walk is a sequential program: it takes its next step as long as it
   has one. *)
FairWalkSpec == WalkSpec /\ WF_vars(WalkNext)

(***************************************************************************)
(* scraper/user_scraper.py: extract_user_id_from_profile_url,              *)
(* _fallback_username, fetch_user_profile, get_or_fetch_user.              *)
(*                                                                         *)
(* A member URL is a token sequence as above; in its path a "." is a token *)
(* of its own and so is a run of digits.                                   *)
(***************************************************************************)
MemberUrl(rest) == BASE_URL \o <<"/", "members", "/">> \o rest

AliceDot == MemberUrl(<<"alice", ".", "17", "/">>)
AliceSlash == MemberUrl(<<"17", "/">>)
BobDot == MemberUrl(<<"bob", ".", "42">>)
Ghost == MemberUrl(<<"ghost">>)
ProfileUrls == {AliceDot, AliceSlash, BobDot, Ghost}

(* urlparse(u).path *)
UrlPath(u) == IF u # <<>> /\ Head(u) = "http" THEN SubSeq(u, 3, Len(u)) ELSE u

(* str.rstrip("/") *)
RECURSIVE RStripSlash(_)
RStripSlash(s) ==
    IF s # <<>> /\ s[Len(s)] = "/"
    THEN RStripSlash(SubSeq(s, 1, Len(s) - 1))
    ELSE s

(* The `/?$` of the two patterns: at most one trailing slash is passed. *)
DropOneSlash(s) ==
    IF s # <<>> /\ s[Len(s)] = "/" THEN SubSeq(s, 1, Len(s) - 1) ELSE s

(* The last path segment taken for the id, digits or not. *)
extract_user_id_LastSegment(profile_url) ==
    IF profile_url = <<>>
    THEN None
    ELSE LET path == DropOneSlash(UrlPath(profile_url))
         IN  IF path = <<>> THEN None ELSE path[Len(path)]

(* extract_user_id_from_profile_url, lines 15-38 *)
extract_user_id_from_profile_url(profile_url) ==
    IF profile_url = <<>>
    THEN None
    ELSE LET path == DropOneSlash(UrlPath(profile_url))
             n == Len(path)
         IN  IF n >= 2 /\ path[n] \in Digits /\ path[n - 1] = "."
             THEN path[n]
             ELSE IF n >= 2 /\ path[n] \in Digits /\ path[n - 1] = "/"
                  THEN path[n]
                  ELSE None

(* path.split("/")[-1] *)
RECURSIVE LastSegment(_)
LastSegment(s) ==
    IF s = <<>> \/ s[Len(s)] = "/"
    THEN <<>>
    ELSE Append(LastSegment(SubSeq(s, 1, Len(s) - 1)), s[Len(s)])

(* _fallback_username, lines 68-72 *)
fallback_username(profile_url) ==
    LET path == RStripSlash(UrlPath(profile_url))
        seg == LastSegment(path)
    IN  IF \E k \in DOMAIN path : path[k] = "."
        THEN IF seg = <<>> \/ Head(seg) = "." THEN "" ELSE Head(seg)
        ELSE IF seg = <<>> THEN None ELSE Head(seg)

(* Python's truth of a str | None *)
Truthy(v) == v # None /\ v # ""

(* _build_user_record, lines 86-128.  Of the record's fields the model keeps
   user_id, username and profile_url; join_date and role; replies for the six
   activity counters, <<>> for None or <<n>>; and location for the fields of
   the About tab. *)
build_user_record(user_id, profile_url, username, join_date, role, replies, location) ==
    [user_id |-> user_id,
     username |-> IF Truthy(username) THEN username
                  ELSE fallback_username(profile_url),
     profile_url |-> profile_url,
     join_date |-> join_date,
     role |-> role,
     replies |-> replies,
     location |-> location]

(* Only the join date counts. *)
has_meaningful_profile_data_JoinDateOnly(user) == Truthy(user.join_date)

(* _has_meaningful_profile_data, lines 130-141: `is not None` for the
   counters, truth for join_date and role. *)
has_meaningful_profile_data(user) ==
    \/ user.replies # <<>>
    \/ Truthy(user.join_date)
    \/ Truthy(user.role)

(* Every value of the side-map written, empty or not. *)
merge_user_details_Overwrite(user, about_location) ==
    [user EXCEPT !.location = about_location]

(* _merge_user_details, lines 183-186, for about_data = {"location": v} or,
   with v = None, {} *)
merge_user_details(user, about_location) ==
    IF Truthy(about_location)
    THEN [user EXCEPT !.location = about_location]
    ELSE user

(* What the network answers to the requests of one fetch_user_profile call:
   about   - the About tab fails, or parses to {} or to a location;
   profile - the profile page fails, is served with an empty body, or
             parses: "thin" to no join date, role or counter, "full" to a
             join date and a header location, "role" to a role only,
             "counter" to a counter of 0 only;
   tooltip - the tooltip fails or is served;
   named   - whether the served markup carries the username. *)
NetOutcomes ==
    [about : {"fail", "plain", "location"},
     profile : {"fail", "empty", "thin", "full", "role", "counter"},
     tooltip : {"fail", "ok"},
     named : BOOLEAN]

DisplayName(user_id) == IF user_id = "17" THEN "Alice" ELSE "Bob"

(* parse_user_about_page on the About tab served: its "location" or None *)
AboutLocation(net) == IF net.about = "location" THEN "about-loc" ELSE None

(* parse_user_profile_page, lines 189-231, on the page served *)
parse_user_profile_page(net, profile_url, user_id) ==
    LET user == build_user_record(
                    user_id, profile_url,
                    IF net.named THEN DisplayName(user_id) ELSE None,
                    IF net.profile = "full" THEN "2020-01-01" ELSE None,
                    IF net.profile = "role" THEN "Member" ELSE None,
                    IF net.profile = "counter" THEN <<0>> ELSE <<>>,
                    IF net.profile = "full" THEN "header-loc" ELSE None)
    IN  IF has_meaningful_profile_data(user) THEN user ELSE NoUser

(* parse_user_tooltip, lines 234-264, on the tooltip served *)
parse_user_tooltip(net, profile_url, user_id) ==
    build_user_record(user_id, profile_url,
                      IF net.named THEN DisplayName(user_id) ELSE None,
                      "2020-01-01", None, <<>>, None)

(* fetch_user_profile, lines 282-294: the record the profile page gives, or
   NoUser when its fetch raised, its body is empty (`if profile_html:`), or
   parse_user_profile_page returned None. *)
ProfilePageUser(profile_url, net, user_id) ==
    IF net.profile \in {"fail", "empty"}
    THEN NoUser
    ELSE parse_user_profile_page(net, profile_url, user_id)

(* The failure caught as those of the other two fetches are. *)
TooltipFetchRaises_Caught(net) == FALSE

(* fetch_user_profile, line 298: `fetch(tooltip_url)` stands in no try, so
   its exception is the call's. *)
TooltipFetchRaises(net) == net.tooltip = "fail"

(* fetch_user_profile, lines 267-302: whether it raised, the record it
   returned and the requests it made, in order. *)
fetch_user_profile(profile_url, net) ==
    LET user_id == extract_user_id_from_profile_url(profile_url)
        about_location == AboutLocation(net)
        profile == ProfilePageUser(profile_url, net, user_id)
        tooltip_user == parse_user_tooltip(net, profile_url, user_id)
    IN  IF user_id = None
        THEN [raised |-> FALSE, user |-> NoUser, fetched |-> <<>>]
        ELSE IF profile # NoUser
             THEN [raised |-> FALSE,
                   user |-> merge_user_details(profile, about_location),
                   fetched |-> <<"about", "profile">>]
             ELSE IF TooltipFetchRaises(net)
                  THEN [raised |-> TRUE, user |-> NoUser,
                        fetched |-> <<"about", "profile", "tooltip">>]
                  ELSE [raised |-> FALSE,
                        user |-> merge_user_details(tooltip_user, about_location),
                        fetched |-> <<"about", "profile", "tooltip">>]

(* user_cache[key] = value *)
Put(dict, key, value) ==
    [k \in DOMAIN dict \cup {key} |-> IF k = key THEN value ELSE dict[k]]

(* A slip of get_or_fetch_user: the record is stored under the member's
   name. *)
get_or_fetch_user_KeyedByName(profile_url, cache, net) ==
    LET user_id == extract_user_id_from_profile_url(profile_url)
        res == fetch_user_profile(profile_url, net)
    IN  IF profile_url = <<>> \/ user_id = None
        THEN [raised |-> FALSE, user |-> NoUser, cache |-> cache,
              fetched |-> <<>>]
        ELSE IF user_id \in DOMAIN cache
             THEN [raised |-> FALSE, user |-> cache[user_id], cache |-> cache,
                   fetched |-> <<>>]
             ELSE [raised |-> res.raised,
                   user |-> res.user,
                   cache |-> IF ~res.raised /\ res.user # NoUser
                             THEN Put(cache, res.user.username, res.user)
                             ELSE cache,
                   fetched |-> res.fetched]

(* get_or_fetch_user, lines 305-323: whether it raised, the record it
   returned, the cache it left and the requests it made. *)
get_or_fetch_user(profile_url, cache, net) ==
    LET user_id == extract_user_id_from_profile_url(profile_url)
        res == fetch_user_profile(profile_url, net)
    IN  IF profile_url = <<>> \/ user_id = None
        THEN [raised |-> FALSE, user |-> NoUser, cache |-> cache,
              fetched |-> <<>>]
        ELSE IF user_id \in DOMAIN cache
             THEN [raised |-> FALSE, user |-> cache[user_id], cache |-> cache,
                   fetched |-> <<>>]
             ELSE [raised |-> res.raised,
                   user |-> res.user,
                   cache |-> IF ~res.raised /\ res.user # NoUser
                             THEN Put(cache, user_id, res.user)
                             ELSE cache,
                   fetched |-> res.fetched]

(***************************************************************************)
(* get_or_fetch_user and fetch_user_profile, statement by statement: one   *)
(* frame per resolver r, all frames on the one user_cache.                 *)
(***************************************************************************)
forumLocals == <<r_pc, thread_urls, thread_page_limit, forum_posts, thread_i,
                 written_user_ids, st_pc, page_idx, posts_done, cur_post,
                 all_posts, interactions, post_author_index, st_cause,
                 resolutions, thread_results, emitted>>

(* The profile references a caller may pass: the member URLs and "". *)
ProfileRefs == ProfileUrls \cup {<<>>}

ResolverFns == {"get_or_fetch_user", "fetch_user_profile"}

(* Resolver r calls fn(profile_url, user_cache); the site will answer its
   requests as net says. *)
ResolverCall(r, fn, profile_url, net) ==
    /\ rs_pc[r] = "idle"
    /\ rs_calls < MaxResolves
    /\ rs_calls' = rs_calls + 1
    /\ rs_fn' = [rs_fn EXCEPT ![r] = fn]
    /\ rs_pc' = [rs_pc EXCEPT ![r] = "entered"]
    /\ rs_url' = [rs_url EXCEPT ![r] = profile_url]
    /\ rs_net' = [rs_net EXCEPT ![r] = net]
    /\ rs_about' = [rs_about EXCEPT ![r] = None]
    /\ rs_result' = [rs_result EXCEPT ![r] = NoUser]
    /\ rs_fetched' = [rs_fetched EXCEPT ![r] = <<>>]
    /\ rs_cache_at_call' = [rs_cache_at_call EXCEPT ![r] = user_cache]
    /\ UNCHANGED <<user_cache, forumLocals>>
    /\ UNCHANGED <<limiterVars, fetchVars, walkVars, idVars>>

(* A hit only for the URL that filled the entry. *)
CacheHit_SameUrl(profile_url, cache) ==
    /\ extract_user_id_from_profile_url(profile_url) \in DOMAIN cache
    /\ cache[extract_user_id_from_profile_url(profile_url)].profile_url
          = profile_url

(* get_or_fetch_user, line 317: `if user_id in user_cache` *)
CacheHit(profile_url, cache) ==
    extract_user_id_from_profile_url(profile_url) \in DOMAIN cache

(* get_or_fetch_user, lines 310-319: `if not profile_url`, `if not user_id`,
   `if user_id in user_cache`; fetch_user_profile, lines 268-272:
   `if not user_id`. *)
ResolverLookup(r) ==
    LET user_id == extract_user_id_from_profile_url(rs_url[r])
    IN  /\ rs_pc[r] = "entered"
        /\ IF rs_fn[r] = "get_or_fetch_user" /\ rs_url[r] = <<>>
           THEN rs_pc' = [rs_pc EXCEPT ![r] = "returned"]
                /\ UNCHANGED rs_result
           ELSE IF user_id = None
           THEN rs_pc' = [rs_pc EXCEPT ![r] = "returned"]
                /\ UNCHANGED rs_result
           ELSE IF rs_fn[r] = "get_or_fetch_user" /\ CacheHit(rs_url[r], user_cache)
           THEN rs_pc' = [rs_pc EXCEPT ![r] = "returned"]
                /\ rs_result' = [rs_result EXCEPT ![r] = user_cache[user_id]]
           ELSE rs_pc' = [rs_pc EXCEPT ![r] = "about"]
                /\ UNCHANGED rs_result
        /\ UNCHANGED <<rs_fn, rs_url, rs_net, rs_about, rs_fetched,
                       rs_cache_at_call, rs_calls>>
        /\ UNCHANGED <<user_cache, forumLocals>>
        /\ UNCHANGED <<limiterVars, fetchVars, walkVars, idVars>>

(* The About tab fetched outside the try. *)
AboutFailureCaught_Not == FALSE

(* fetch_user_profile, lines 276-280: `except Exception` around the fetch and
   the parse of the About tab. *)
AboutFailureCaught == TRUE

(* fetch_user_profile, lines 274-280: the About tab, in a try whose except
   leaves about_data = {}. *)
ResolverAbout(r) ==
    /\ rs_pc[r] = "about"
    /\ rs_fetched' = [rs_fetched EXCEPT ![r] = Append(@, "about")]
    /\ rs_about' = [rs_about EXCEPT ![r] = AboutLocation(rs_net[r])]
    /\ rs_pc' = [rs_pc EXCEPT ![r] =
                    IF rs_net[r].about = "fail" /\ ~AboutFailureCaught
                    THEN "raised" ELSE "profile"]
    /\ UNCHANGED <<rs_fn, rs_url, rs_net, rs_result, rs_cache_at_call, rs_calls>>
    /\ UNCHANGED <<user_cache, forumLocals>>
    /\ UNCHANGED <<limiterVars, fetchVars, walkVars, idVars>>

(* fetch_user_profile, lines 282-294: the profile page, in a try whose except
   leaves profile_html = None; a page with meaningful data is returned. *)
ResolverProfile(r) ==
    LET user_id == extract_user_id_from_profile_url(rs_url[r])
        profile == ProfilePageUser(rs_url[r], rs_net[r], user_id)
    IN  /\ rs_pc[r] = "profile"
        /\ rs_fetched' = [rs_fetched EXCEPT ![r] = Append(@, "profile")]
        /\ IF profile # NoUser
           THEN /\ rs_result' = [rs_result EXCEPT ![r] =
                                    merge_user_details(profile, rs_about[r])]
                /\ rs_pc' = [rs_pc EXCEPT ![r] = "store"]
           ELSE /\ rs_pc' = [rs_pc EXCEPT ![r] = "tooltip"]
                /\ UNCHANGED rs_result
        /\ UNCHANGED <<rs_fn, rs_url, rs_net, rs_about, rs_cache_at_call,
                       rs_calls>>
        /\ UNCHANGED <<user_cache, forumLocals>>
        /\ UNCHANGED <<limiterVars, fetchVars, walkVars, idVars>>

(* fetch_user_profile, lines 296-302: the tooltip, fetched outside any try. *)
ResolverTooltip(r) ==
    LET user_id == extract_user_id_from_profile_url(rs_url[r])
        tooltip_user == parse_user_tooltip(rs_net[r], rs_url[r], user_id)
    IN  /\ rs_pc[r] = "tooltip"
        /\ rs_fetched' = [rs_fetched EXCEPT ![r] = Append(@, "tooltip")]
        /\ IF TooltipFetchRaises(rs_net[r])
           THEN /\ rs_pc' = [rs_pc EXCEPT ![r] = "raised"]
                /\ UNCHANGED rs_result
           ELSE /\ rs_result' = [rs_result EXCEPT ![r] =
                                    merge_user_details(tooltip_user, rs_about[r])]
                /\ rs_pc' = [rs_pc EXCEPT ![r] = "store"]
        /\ UNCHANGED <<rs_fn, rs_url, rs_net, rs_about, rs_cache_at_call,
                       rs_calls>>
        /\ UNCHANGED <<user_cache, forumLocals>>
        /\ UNCHANGED <<limiterVars, fetchVars, walkVars, idVars>>

(* get_or_fetch_user, lines 321-323: `if profile: user_cache[user_id] =
   profile`, then `return profile`; a direct call of fetch_user_profile
   returns here without the cache. *)
ResolverStore(r) ==
    LET user_id == extract_user_id_from_profile_url(rs_url[r])
    IN  /\ rs_pc[r] = "store"
        /\ user_cache' = IF rs_fn[r] = "get_or_fetch_user" /\ rs_result[r] # NoUser
                         THEN Put(user_cache, user_id, rs_result[r])
                         ELSE user_cache
        /\ rs_pc' = [rs_pc EXCEPT ![r] = "returned"]
        /\ UNCHANGED <<rs_fn, rs_url, rs_net, rs_about, rs_result, rs_fetched,
                       rs_cache_at_call, rs_calls>>
        /\ UNCHANGED forumLocals
        /\ UNCHANGED <<limiterVars, fetchVars, walkVars, idVars>>

(* The caller has taken the result or the exception: the frame is gone. *)
ResolverDone(r) ==
    /\ rs_pc[r] \in {"returned", "raised"}
    /\ rs_fn' = [rs_fn EXCEPT ![r] = "none"]
    /\ rs_pc' = [rs_pc EXCEPT ![r] = "idle"]
    /\ rs_url' = [rs_url EXCEPT ![r] = <<>>]
    /\ rs_net' = [rs_net EXCEPT ![r] = QuietNet]
    /\ rs_about' = [rs_about EXCEPT ![r] = None]
    /\ rs_result' = [rs_result EXCEPT ![r] = NoUser]
    /\ rs_fetched' = [rs_fetched EXCEPT ![r] = <<>>]
    /\ rs_cache_at_call' = [rs_cache_at_call EXCEPT ![r] = EmptyDict]
    /\ UNCHANGED rs_calls
    /\ UNCHANGED <<user_cache, forumLocals>>
    /\ UNCHANGED <<limiterVars, fetchVars, walkVars, idVars>>

(* One thread resolves members, one call after another, on a cache that
   starts empty. *)
ResolveInit == GatewayStart /\ WalkIdle /\ ForumIdle /\ ResolveIdle /\ IdIdle

ResolveNext ==
    \/ \E fn \in ResolverFns, u \in ProfileRefs, net \in NetOutcomes :
          ResolverCall(1, fn, u, net)
    \/ ResolverLookup(1)
    \/ ResolverAbout(1)
    \/ ResolverProfile(1)
    \/ ResolverTooltip(1)
    \/ ResolverStore(1)
    \/ ResolverDone(1)

ResolveSpec == ResolveInit /\ [][ResolveNext]_vars

(* Two threads call get_or_fetch_user on the one cache, their statements
   interleaved; the members have an id, and the site fails, serves a full
   profile page, or serves a thin one and the tooltip. *)
ConcResolveUrls == {AliceDot, AliceSlash, BobDot}
ConcResolveNet ==
    {QuietNet,
     [about |-> "plain", profile |-> "full", tooltip |-> "ok", named |-> TRUE],
     [about |-> "location", profile |-> "thin", tooltip |-> "ok", named |-> TRUE]}

ConcResolveNext ==
    \E r \in Resolvers :
        \/ \E u \in ConcResolveUrls, net \in ConcResolveNet :
              ResolverCall(r, "get_or_fetch_user", u, net)
        \/ ResolverLookup(r)
        \/ ResolverAbout(r)
        \/ ResolverProfile(r)
        \/ ResolverTooltip(r)
        \/ ResolverStore(r)
        \/ ResolverDone(r)

ConcResolveSpec == ResolveInit /\ [][ConcResolveNext]_vars

(***************************************************************************)
(* scraper/post_scraper.py: _thread_id_from_url.  A thread URL is a        *)
(* sequence of tokens as a member URL is; "?" opens the query, and a       *)
(* string of hex digits is the token "sha1:" followed by what was hashed.  *)
(***************************************************************************)
ThreadDigits == {"123", "7"}

(* The thread URLs that end in the digits d: after `stem` and `sep`, and
   before `tail`, which adds no path segment. *)
MakeThreadUrl(stem, sep, d, tail) ==
    BASE_URL \o <<"/", "threads", "/">> \o stem \o sep \o <<d>> \o tail

ThreadStems == {<<>>, <<"foo">>}
ThreadSeps == {<<>>, <<".">>, <<"-">>}
ThreadTails ==
    {<<>>, <<"/">>, <<"/", "/">>, <<"?", "page=2">>, <<"/", "?", "page=2">>}

NumberedThreadUrls ==
    {MakeThreadUrl(stem, sep, d, tail) :
        stem \in ThreadStems, sep \in ThreadSeps, d \in ThreadDigits,
        tail \in ThreadTails}

(* Thread URLs whose path does not end in digits, "" among them. *)
UnnumberedThreadUrls ==
    {<<>>, <<"threads", "/", "foo">>}
        \cup {BASE_URL \o <<"/", "threads", "/">> \o rest \o tail :
                 rest \in {<<"foo">>, <<"foo", ".", "123", "/", "latest">>},
                 tail \in {<<>>, <<"/">>}}

ThreadUrls == NumberedThreadUrls \cup UnnumberedThreadUrls

(* urlparse(u).path: without scheme and host, and up to the query *)
RECURSIVE UpToQuery(_)
UpToQuery(s) ==
    IF s = <<>> \/ Head(s) = "?"
    THEN <<>>
    ELSE <<Head(s)>> \o UpToQuery(Tail(s))

urlparse_path(u) == UpToQuery(UrlPath(u))

(* The path as urlparse gives it, trailing slashes kept. *)
thread_path_NoStrip(thread_url) == urlparse_path(thread_url)

(* _thread_id_from_url, line 46 *)
thread_path(thread_url) == RStripSlash(urlparse_path(thread_url))

(* hashlib.sha1(thread_url.encode(...)).hexdigest()[:16], line 53 *)
Sha1Hex16(thread_url) == <<"sha1:">> \o thread_url

(* _thread_id_from_url, lines 44-53; the id is a string of one token, or
   the hex digits *)
thread_id_from_url(thread_url) ==
    LET path == thread_path(thread_url)
        n == Len(path)
    IN  IF n >= 2 /\ path[n] \in ThreadDigits /\ path[n - 1] = "."
        THEN <<path[n]>>
        ELSE IF n >= 1 /\ path[n] \in ThreadDigits
             THEN <<path[n]>>
             ELSE Sha1Hex16(thread_url)

(* _thread_id_from_url(thread_url) is called and returns. *)
ThreadIdCall(thread_url) ==
    /\ Len(tid_calls) < MaxIdCalls
    /\ tid_calls' = Append(tid_calls,
                           [thread_url |-> thread_url,
                            thread_id |-> thread_id_from_url(thread_url)])
    /\ UNCHANGED <<limiterVars, fetchVars, walkVars, forumVars, resolveVars>>

ThreadIdInit == GatewayStart /\ WalkIdle /\ ForumIdle /\ ResolveIdle /\ IdIdle

ThreadIdNext == \E thread_url \in ThreadUrls : ThreadIdCall(thread_url)

ThreadIdSpec == ThreadIdInit /\ [][ThreadIdNext]_vars

(***************************************************************************)
(* scraper/post_scraper.py: _build_interactions_for_post, scrape_thread.   *)
(* Confidences are in tenths.                                              *)
(***************************************************************************)
QUOTE_CONFIDENCE == 10
MENTION_CONFIDENCE == 7

(* A mention as _extract_mentions builds it, lines 114-118 *)
Mention(profile_url, username) ==
    [profile_url |-> profile_url, username |-> username,
     user_id |-> extract_user_id_from_profile_url(profile_url)]

(* The raw post fragments a thread page may carry. *)
PostIds == {"p1", "p2"}
Quote(t) == [target_post_id |-> t, target_username |-> "nick"]
QuoteLists ==
    {<<>>, <<Quote("p1"), Quote("p2")>>}
        \cup {<<Quote(t)>> : t \in PostIds \cup {None}}
MentionLists == {<<>>, <<Mention(AliceDot, "Alice")>>}
Fragments ==
    [post_id : PostIds \cup {None},
     profile_url : ProfileUrls \cup {<<>>},
     username : {"nick"},
     quotes : QuoteLists,
     mentions : MentionLists]

(* The collected user_id alone, dropped. *)
MentionTarget_Unresolved(mention) == None

(* _build_interactions_for_post, lines 311-344: the target of a mention *)
MentionTarget(mention) ==
    IF Truthy(mention.user_id)
    THEN mention.user_id
    ELSE IF mention.profile_url # <<>>
         THEN extract_user_id_from_profile_url(mention.profile_url)
         ELSE None

(* The quoted username taken for the target when the index gives none. *)
QuoteTarget_ByUsername(quote, index) ==
    IF /\ Truthy(quote.target_post_id)
       /\ quote.target_post_id \in DOMAIN index
    THEN index[quote.target_post_id].user_id
    ELSE quote.target_username

(* _build_interactions_for_post, lines 311-314: the target user of a quote *)
QuoteTarget(quote, index) ==
    IF /\ Truthy(quote.target_post_id)
       /\ quote.target_post_id \in DOMAIN index
    THEN index[quote.target_post_id].user_id
    ELSE None

(* A slip of QuoteRow: a quote is given the confidence of a mention. *)
QuoteRow_MentionConfidence(post_row, quote, index) ==
    [interaction_type |-> "quote",
     replying_post_id |-> post_row.post_id,
     target_post_id |-> quote.target_post_id,
     source_user_id |-> post_row.user_id,
     target_user_id |-> QuoteTarget(quote, index),
     confidence |-> MENTION_CONFIDENCE]

(* _build_interactions_for_post, lines 310-325: the row of one quote *)
QuoteRow(post_row, quote, index) ==
    [interaction_type |-> "quote",
     replying_post_id |-> post_row.post_id,
     target_post_id |-> quote.target_post_id,
     source_user_id |-> post_row.user_id,
     target_user_id |-> QuoteTarget(quote, index),
     confidence |-> QUOTE_CONFIDENCE]

(* No mention passed over. *)
MentionKept_Always(mention) == TRUE

(* _build_interactions_for_post, lines 332-333: a mention without a target
   user and without a username is passed over *)
MentionKept(mention) ==
    Truthy(MentionTarget(mention)) \/ Truthy(mention.username)

(* _build_interactions_for_post, lines 334-344: the row of one mention *)
MentionRow(post_row, mention) ==
    [interaction_type |-> "mention",
     replying_post_id |-> post_row.post_id,
     target_post_id |-> None,
     source_user_id |-> post_row.user_id,
     target_user_id |-> MentionTarget(mention),
     confidence |-> MENTION_CONFIDENCE]

(* _build_interactions_for_post, lines 310-344: the two for loops *)
InteractionRows(post_row, quotes, mentions, index) ==
    LET kept == SelectSeq(mentions, MentionKept)
    IN  [k \in 1..Len(quotes) |-> QuoteRow(post_row, quotes[k], index)]
            \o [k \in 1..Len(kept) |-> MentionRow(post_row, kept[k])]

(* A slip of _build_interactions_for_post: the post_id of the post is not
   tested. *)
build_interactions_NoIdTest(post_row, quotes, mentions, index) ==
    InteractionRows(post_row, quotes, mentions, index)

(* _build_interactions_for_post, lines 294-346 *)
build_interactions_for_post(post_row, quotes, mentions, index) ==
    IF ~Truthy(post_row.post_id)
    THEN <<>>
    ELSE InteractionRows(post_row, quotes, mentions, index)

(* scrape_thread, lines 371-400: the row of post p on page page_url of
   thread thread_url, `user` being what get_or_fetch_user returned *)
PostRow(p, user, thread_url, pg_url) ==
    [thread_url |-> thread_url,
     page_url |-> pg_url,
     post_id |-> p.post_id,
     user_id |-> IF p.profile_url = <<>>
                 THEN None
                 ELSE IF user # NoUser
                      THEN user.user_id
                      ELSE extract_user_id_from_profile_url(p.profile_url),
     username |-> IF p.profile_url # <<>> /\ user # NoUser
                     /\ Truthy(user.username)
                  THEN user.username
                  ELSE p.username]

(***************************************************************************)
(* run_forum_scrape.py: scrape_single_forum, and scrape_thread step by     *)
(* step.  get_thread_pages runs as the walk above.                         *)
(***************************************************************************)
(* The index kept from one call of scrape_thread to the next. *)
ThreadLocalsCleared_IndexKept ==
    /\ page_idx' = 0
    /\ cur_post' = NoPost
    /\ all_posts' = <<>>
    /\ interactions' = <<>>
    /\ UNCHANGED post_author_index

(* scrape_thread, lines 358-360: the three locals of a call are new, and
   none outlives it. *)
ThreadLocalsCleared ==
    /\ page_idx' = 0
    /\ cur_post' = NoPost
    /\ all_posts' = <<>>
    /\ interactions' = <<>>
    /\ post_author_index' = EmptyDict

(* scrape_single_forum, lines 55-63: get_thread_list returns n thread URLs,
   distinct and absolute. *)
GetThreadListReturns(n) ==
    /\ r_pc = "start"
    /\ thread_urls' = [k \in 1..n |-> Render("absolute", ThreadSeq[k])]
    /\ user_cache' = EmptyDict
    /\ written_user_ids' = {}
    /\ r_pc' = "loop"
    /\ UNCHANGED <<thread_page_limit, forum_posts, thread_i, st_pc, page_idx, posts_done,
                   cur_post, all_posts, interactions, post_author_index,
                   st_cause, resolutions, thread_results,
                   emitted>>
    /\ UNCHANGED <<limiterVars, fetchVars, walkVars, resolveVars, idVars>>

(* scrape_single_forum, lines 55-59: get_thread_list raises, and so does
   scrape_single_forum. *)
GetThreadListRaises ==
    /\ r_pc = "start"
    /\ r_pc' = "fatal"
    /\ UNCHANGED <<thread_urls, thread_page_limit, forum_posts, thread_i, user_cache,
                   written_user_ids, st_pc, page_idx, posts_done, cur_post,
                   all_posts, interactions, post_author_index, st_cause,
                   resolutions, thread_results,
                   emitted>>
    /\ UNCHANGED <<limiterVars, fetchVars, walkVars, resolveVars, idVars>>

(* scrape_single_forum, lines 83-90, and scrape_thread, lines 358-363: the
   loop takes the next thread and scrape_thread calls get_thread_pages; the
   thread's pages are linked as `site`. *)
ScrapeThreadCall(site) ==
    /\ r_pc = "loop"
    /\ thread_i < Len(thread_urls)
    /\ thread_i' = thread_i + 1
    /\ r_pc' = "thread"
    /\ st_pc' = "walk"
    /\ st_cause' = None
    /\ ThreadLocalsCleared
    /\ UNCHANGED posts_done
    /\ walk_fn' = "pages"
    /\ walk_pc' = "loop"
    /\ start_url' = thread_urls[thread_i']
    /\ site_next' = site
    /\ max_pages' = thread_page_limit
    /\ page_url' = thread_urls[thread_i']
    /\ page' = 1
    /\ pages' = <<thread_urls[thread_i']>>
    /\ walk_fetches' = 0
    /\ UNCHANGED <<thread_limit, seen, ordered_threads, url, cards_done>>
    /\ UNCHANGED <<thread_urls, thread_page_limit, forum_posts, user_cache,
                   written_user_ids, resolutions, thread_results,
                   emitted>>
    /\ UNCHANGED <<limiterVars, fetchVars, resolveVars, idVars>>

(* scrape_thread, lines 363-365: get_thread_pages returned `pages`; its
   locals are gone and the thread's links are not read again. *)
PagesReturned ==
    /\ st_pc = "walk"
    /\ walk_pc = "done"
    /\ st_pc' = "page"
    /\ page_idx' = 1
    /\ walk_fn' = "none"
    /\ page_url' = <<>>
    /\ page' = 0
    /\ site_next' = [p \in 1..NumPages |-> 0]
    /\ walk_fetches' = 0
    /\ UNCHANGED <<walk_pc, start_url, max_pages, thread_limit, seen,
                   ordered_threads, pages, url, cards_done>>
    /\ UNCHANGED <<r_pc, thread_urls, thread_page_limit, forum_posts, thread_i, user_cache,
                   written_user_ids, posts_done, cur_post, all_posts,
                   interactions, post_author_index, st_cause, resolutions,
                   thread_results,
                   emitted>>
    /\ UNCHANGED <<limiterVars, fetchVars, resolveVars, idVars>>

(* scrape_thread, line 363: get_thread_pages raised; nothing catches it. *)
PagesRaised ==
    /\ st_pc = "walk"
    /\ walk_pc = "raised"
    /\ st_pc' = "raised"
    /\ st_cause' = "get_thread_pages"
    /\ UNCHANGED <<r_pc, thread_urls, thread_page_limit, forum_posts, thread_i, user_cache,
                   written_user_ids, page_idx, posts_done, cur_post,
                   all_posts, interactions, post_author_index, resolutions,
                   thread_results,
                   emitted>>
    /\ UNCHANGED <<limiterVars, fetchVars, walkVars, resolveVars, idVars>>

(* scrape_thread, lines 365-368: the for loop takes the next page and
   fetches it; an exception of fetch is not caught. *)
PageFetch(ok) ==
    /\ st_pc = "page"
    /\ page_idx <= Len(pages)
    /\ IF ok
       THEN st_pc' = "posts" /\ UNCHANGED st_cause
       ELSE st_pc' = "raised" /\ st_cause' = "fetch"
    /\ UNCHANGED <<r_pc, thread_urls, thread_page_limit, forum_posts, thread_i, user_cache,
                   written_user_ids, page_idx, posts_done, cur_post,
                   all_posts, interactions, post_author_index, resolutions,
                   thread_results,
                   emitted>>
    /\ UNCHANGED <<limiterVars, fetchVars, walkVars, resolveVars, idVars>>

(* scrape_thread, line 370: the inner for loop takes the page's next post. *)
TakePost(frag) ==
    /\ st_pc = "posts"
    /\ posts_done < forum_posts
    /\ posts_done' = posts_done + 1
    /\ cur_post' = frag
    /\ st_pc' = "resolve"
    /\ UNCHANGED <<r_pc, thread_urls, thread_page_limit, forum_posts, thread_i, user_cache,
                   written_user_ids, page_idx, all_posts, interactions,
                   post_author_index, st_cause, resolutions, thread_results,
                   emitted>>
    /\ UNCHANGED <<limiterVars, fetchVars, walkVars, resolveVars, idVars>>

(* get_or_fetch_user(profile_url, cache) goes to fetch_user_profile. *)
NeedsNetwork(profile_url, cache) ==
    /\ extract_user_id_from_profile_url(profile_url) # None
    /\ extract_user_id_from_profile_url(profile_url) \notin DOMAIN cache

(* scrape_thread, lines 371-416: the body of the inner for loop for the post
   taken; the network answers `net` to the requests of fetch_user_profile.
   An exception of get_or_fetch_user is not caught. *)
ProcessPost(net) ==
    /\ st_pc = "resolve"
    /\ NeedsNetwork(cur_post.profile_url, user_cache) \/ net = QuietNet
    /\ LET res == IF cur_post.profile_url # <<>>
                  THEN get_or_fetch_user(cur_post.profile_url, user_cache, net)
                  ELSE [raised |-> FALSE, user |-> NoUser,
                        cache |-> user_cache, fetched |-> <<>>]
           post_row == PostRow(cur_post, res.user, start_url, pages[page_idx])
           index == IF Truthy(post_row.post_id)
                    THEN Put(post_author_index, post_row.post_id,
                             [user_id |-> post_row.user_id,
                              username |-> post_row.username])
                    ELSE post_author_index
       IN  /\ user_cache' = res.cache
           /\ resolutions' =
                  IF res.fetched # <<>>
                  THEN [resolutions EXCEPT
                           ![extract_user_id_from_profile_url(
                                 cur_post.profile_url)] = @ + 1]
                  ELSE resolutions
           /\ IF res.raised
              THEN /\ st_pc' = "raised"
                   /\ st_cause' = "get_or_fetch_user"
                   /\ UNCHANGED <<cur_post, all_posts, interactions,
                                  post_author_index>>
              ELSE /\ st_pc' = "posts"
                   /\ cur_post' = NoPost
                   /\ all_posts' = Append(all_posts, post_row)
                   /\ post_author_index' = index
                   /\ interactions' =
                          interactions \o build_interactions_for_post(
                              post_row, cur_post.quotes, cur_post.mentions,
                              index)
                   /\ UNCHANGED st_cause
    /\ UNCHANGED <<r_pc, thread_urls, thread_page_limit, forum_posts, thread_i,
                   written_user_ids, page_idx, posts_done, thread_results,
                   emitted>>
    /\ UNCHANGED <<limiterVars, fetchVars, walkVars, resolveVars, idVars>>

(* scrape_thread, lines 365 and 370: the page has no further post. *)
PageEnd ==
    /\ st_pc = "posts"
    /\ page_idx' = page_idx + 1
    /\ st_pc' = "page"
    /\ UNCHANGED <<r_pc, thread_urls, thread_page_limit, forum_posts, thread_i, user_cache,
                   written_user_ids, posts_done, cur_post, all_posts,
                   interactions, post_author_index, st_cause, resolutions,
                   thread_results,
                   emitted>>
    /\ UNCHANGED <<limiterVars, fetchVars, walkVars, resolveVars, idVars>>

(* scrape_thread, lines 418-426: every page is done; the triple is
   returned. *)
ThreadReturns ==
    /\ st_pc = "page"
    /\ page_idx > Len(pages)
    /\ st_pc' = "returned"
    /\ UNCHANGED <<r_pc, thread_urls, thread_page_limit, forum_posts, thread_i, user_cache,
                   written_user_ids, page_idx, posts_done, cur_post,
                   all_posts, interactions, post_author_index, st_cause,
                   resolutions, thread_results,
                   emitted>>
    /\ UNCHANGED <<limiterVars, fetchVars, walkVars, resolveVars, idVars>>

(* The frame of scrape_thread is gone. *)
ThreadFrameGone ==
    /\ st_pc' = "idle"
    /\ ThreadLocalsCleared
    /\ walk_fn' = "none"
    /\ walk_pc' = "done"
    /\ start_url' = <<>>
    /\ site_next' = [p \in 1..NumPages |-> 0]
    /\ max_pages' = <<>>
    /\ page_url' = <<>>
    /\ page' = 0
    /\ pages' = <<>>
    /\ walk_fetches' = 0
    /\ UNCHANGED <<thread_limit, seen, ordered_threads, url, cards_done>>

(* scrape_single_forum, lines 96-108: scrape_thread returned; its rows are
   written, and every cached user not written before. *)
RunnerWrites ==
    /\ r_pc = "thread"
    /\ st_pc = "returned"
    /\ thread_results' = Append(thread_results, "written")
    /\ emitted' = Append(emitted, [thread_url |-> start_url,
                                   posts |-> Len(all_posts),
                                   interactions |-> Len(interactions)])
    /\ written_user_ids' =
           written_user_ids \cup {id \in DOMAIN user_cache : Truthy(id)}
    /\ r_pc' = "loop"
    /\ ThreadFrameGone
    /\ UNCHANGED <<thread_urls, thread_page_limit, forum_posts, thread_i, user_cache,
                   posts_done, st_cause, resolutions>>
    /\ UNCHANGED <<limiterVars, fetchVars, resolveVars, idVars>>

(* A slip of ThreadFailureCaught: the call of scrape_thread is in no try. *)
ThreadFailureCaught_Not == FALSE

(* scrape_single_forum, lines 85 and 91: `try: ... except Exception` *)
ThreadFailureCaught == TRUE

(* scrape_single_forum, lines 91-94: scrape_thread raised; the thread is
   skipped. *)
RunnerSkips ==
    /\ r_pc = "thread"
    /\ st_pc = "raised"
    /\ thread_results' = Append(thread_results, "skipped")
    /\ r_pc' = IF ThreadFailureCaught THEN "loop" ELSE "fatal"
    /\ UNCHANGED emitted
    /\ ThreadFrameGone
    /\ UNCHANGED <<thread_urls, thread_page_limit, forum_posts, thread_i, user_cache,
                   written_user_ids, posts_done, st_cause, resolutions>>
    /\ UNCHANGED <<limiterVars, fetchVars, resolveVars, idVars>>

(* scrape_single_forum, lines 83 and 110-114: no thread is left. *)
RunnerFinishes ==
    /\ r_pc = "loop"
    /\ thread_i = Len(thread_urls)
    /\ r_pc' = "finished"
    /\ UNCHANGED <<thread_urls, thread_page_limit, forum_posts, thread_i, user_cache,
                   written_user_ids, st_pc, page_idx, posts_done, cur_post,
                   all_posts, interactions, post_author_index, st_cause,
                   resolutions, thread_results,
                   emitted>>
    /\ UNCHANGED <<limiterVars, fetchVars, walkVars, resolveVars, idVars>>

(* scrape_single_forum(forum_url, max_forum_pages, thread_limit,
   thread_page_limit) is called, thread_page_limit being one of
   `page_limits`, on a forum whose threads hold `posts` posts. *)
ForumStart(page_limits, posts) ==
    /\ GatewayStart
    /\ WalkIdle
    /\ ResolveIdle
    /\ IdIdle
    /\ r_pc = "start"
    /\ thread_urls = <<>>
    /\ thread_page_limit \in page_limits
    /\ forum_posts = posts
    /\ thread_i = 0
    /\ user_cache = EmptyDict
    /\ written_user_ids = {}
    /\ st_pc = "idle"
    /\ page_idx = 0
    /\ posts_done = 0
    /\ cur_post = NoPost
    /\ all_posts = <<>>
    /\ interactions = <<>>
    /\ post_author_index = EmptyDict
    /\ st_cause = None
    /\ resolutions = [id \in Digits |-> 0]
    /\ thread_results = <<>>
    /\ emitted = <<>>

ForumInit ==
    ForumStart({<<>>} \cup {<<k>> : k \in 1..MaxThreadPages}, MaxPosts)

(* The posts of the forum quote and mention nobody, and the markup served
   for a member carries the username and no location. *)
AuthorFragments == {frag \in Fragments : frag.quotes = <<>> /\ frag.mentions = <<>>}
NamedNet == {net \in NetOutcomes : net.named /\ net.about # "location"}

ForumNext ==
    \/ \E n \in 0..MaxThreads : GetThreadListReturns(n)
    \/ GetThreadListRaises
    \/ \E site \in Sites : ScrapeThreadCall(site)
    \/ \E h \in AnyNextHref : PagesPass(h)
    \/ WalkFetchRaises
    \/ PagesReturned
    \/ PagesRaised
    \/ \E ok \in BOOLEAN : PageFetch(ok)
    \/ \E frag \in AuthorFragments : TakePost(frag)
    \/ \E net \in NamedNet : ProcessPost(net)
    \/ PageEnd
    \/ ThreadReturns
    \/ RunnerWrites
    \/ RunnerSkips
    \/ RunnerFinishes

ForumSpec == ForumInit /\ [][ForumNext]_vars

(***************************************************************************)
(* One thread whose posts quote and mention: scrape_single_forum on a      *)
(* forum of a single thread.  A member's profile page is served in full or *)
(* every request for the member fails.                                     *)
(***************************************************************************)
QuotingFragments ==
    {frag \in Fragments : frag.profile_url \in {AliceDot, BobDot, <<>>}}
ThreadNet ==
    {QuietNet,
     [about |-> "plain", profile |-> "full", tooltip |-> "ok", named |-> TRUE]}

ThreadNext ==
    \/ GetThreadListReturns(1)
    \/ GetThreadListRaises
    \/ \E site \in Sites : ScrapeThreadCall(site)
    \/ \E h \in AnyNextHref : PagesPass(h)
    \/ WalkFetchRaises
    \/ PagesReturned
    \/ PagesRaised
    \/ \E ok \in BOOLEAN : PageFetch(ok)
    \/ \E frag \in QuotingFragments : TakePost(frag)
    \/ \E net \in ThreadNet : ProcessPost(net)
    \/ PageEnd
    \/ ThreadReturns
    \/ RunnerWrites
    \/ RunnerSkips
    \/ RunnerFinishes

ThreadSpec == ForumInit /\ [][ThreadNext]_vars

(***************************************************************************)
(* One thread whose posts quote nobody and mention members: by a link with *)
(* or without an id in its URL, with or without text.  _extract_mentions   *)
(* lists a (profile_url, username) pair once.                              *)
(***************************************************************************)
MentionLinks ==
    {Mention(AliceDot, "Alice"), Mention(BobDot, None),
     Mention(Ghost, "Ghost"), Mention(Ghost, None)}

MentionSeqs ==
    {<<>>} \cup {<<m>> : m \in MentionLinks}
           \cup {pair \in MentionLinks \X MentionLinks : pair[1] # pair[2]}

MentioningFragments ==
    [post_id : {"p1", None},
     profile_url : {AliceDot, <<>>},
     username : {"nick"},
     quotes : {<<>>},
     mentions : MentionSeqs]

MentionNext ==
    \/ GetThreadListReturns(1)
    \/ GetThreadListRaises
    \/ \E site \in Sites : ScrapeThreadCall(site)
    \/ \E h \in AnyNextHref : PagesPass(h)
    \/ WalkFetchRaises
    \/ PagesReturned
    \/ PagesRaised
    \/ \E ok \in BOOLEAN : PageFetch(ok)
    \/ \E frag \in MentioningFragments : TakePost(frag)
    \/ \E net \in ThreadNet : ProcessPost(net)
    \/ PageEnd
    \/ ThreadReturns
    \/ RunnerWrites
    \/ RunnerSkips
    \/ RunnerFinishes

MentionSpec == ForumInit /\ [][MentionNext]_vars

(***************************************************************************)
(* Two threads scraped one after the other: p1 is by member 17 and may     *)
(* quote p2; p2 is by member 42 or by a guest and may quote p1.  Either    *)
(* post may stand in either thread.                                        *)
(***************************************************************************)
CrossThreadFragments ==
    [post_id : {"p1"}, profile_url : {AliceDot}, username : {"nick"},
     quotes : {<<>>, <<Quote("p2")>>}, mentions : {<<>>}]
    \cup
    [post_id : {"p2"}, profile_url : {BobDot, <<>>}, username : {"nick"},
     quotes : {<<>>, <<Quote("p1")>>}, mentions : {<<>>}]

CrossThreadNext ==
    \/ GetThreadListReturns(MaxThreads)
    \/ GetThreadListRaises
    \/ \E site \in Sites : ScrapeThreadCall(site)
    \/ \E h \in AnyNextHref : PagesPass(h)
    \/ WalkFetchRaises
    \/ PagesReturned
    \/ PagesRaised
    \/ \E ok \in BOOLEAN : PageFetch(ok)
    \/ \E frag \in CrossThreadFragments : TakePost(frag)
    \/ \E net \in ThreadNet : ProcessPost(net)
    \/ PageEnd
    \/ ThreadReturns
    \/ RunnerWrites
    \/ RunnerSkips
    \/ RunnerFinishes

CrossThreadSpec == ForumInit /\ [][CrossThreadNext]_vars

(***************************************************************************)
(* One thread of two pages: page 1 holds P1 by member A and then P2, which *)
(* quotes P1; page 2 holds P3, which mentions A's profile.  A is Alice,    *)
(* under either form of her member URL; P2 and P3 are by Alice, by Bob or  *)
(* by a guest.                                                             *)
(***************************************************************************)
TwoPageSite == [p \in 1..NumPages |-> IF p = 1 THEN 2 ELSE 0]

AliceUrls == {AliceDot, AliceSlash}
ScenarioAuthors == {AliceDot, BobDot, <<>>}

(* The fragments the k-th post of the thread may be. *)
ScenarioPost(k) ==
    IF k = 1
    THEN {[post_id |-> "p1", profile_url |-> a, username |-> "nick",
           quotes |-> <<>>, mentions |-> <<>>] : a \in AliceUrls}
    ELSE IF k = 2
    THEN {[post_id |-> "p2", profile_url |-> u, username |-> "nick",
           quotes |-> <<Quote("p1")>>, mentions |-> <<>>] :
              u \in ScenarioAuthors}
    ELSE {[post_id |-> "p3", profile_url |-> u, username |-> "nick",
           quotes |-> <<>>, mentions |-> <<Mention(a, "Alice")>>] :
              u \in ScenarioAuthors, a \in AliceUrls}

(* The posts on each page of the thread. *)
ScenarioPages == <<{1, 2}, {3}>>
ScenarioPosts == Cardinality(UNION {ScenarioPages[i] : i \in DOMAIN ScenarioPages})

(* The page's next post, as parse_posts_from_page lists it: post k follows
   the k - 1 posts already appended to all_posts. *)
ScenarioNextPost ==
    IF page_idx \in DOMAIN ScenarioPages
       /\ Len(all_posts) + 1 \in ScenarioPages[page_idx]
    THEN ScenarioPost(Len(all_posts) + 1)
    ELSE {}

ScenarioInit == ForumStart({<<>>}, ScenarioPosts)

ScenarioNext ==
    \/ GetThreadListReturns(1)
    \/ ScrapeThreadCall(TwoPageSite)
    \/ \E h \in AnyNextHref : PagesPass(h)
    \/ WalkFetchRaises
    \/ PagesReturned
    \/ PagesRaised
    \/ \E ok \in BOOLEAN : PageFetch(ok)
    \/ \E frag \in ScenarioNextPost : TakePost(frag)
    \/ \E net \in NetOutcomes : ProcessPost(net)
    \/ ScenarioNextPost = {} /\ PageEnd
    \/ ThreadReturns
    \/ RunnerWrites
    \/ RunnerSkips
    \/ RunnerFinishes

ScenarioSpec == ScenarioInit /\ [][ScenarioNext]_vars

(***************************************************************************)
(*                              The claims                                 *)
(***************************************************************************)

(***************************************************************************)
(* The rate bound: of any max_calls + 1 consecutive admitted timestamps,   *)
(* the last is at least `period` after the first, so that no half-open     *)
(* window of length period holds more than max_calls of them.              *)
(***************************************************************************)
RateBound ==
    \A i \in DOMAIN admitted :
        (i + max_calls) \in DOMAIN admitted =>
            admitted[i + max_calls].at - admitted[i].at >= period

(* A caller that found the window full is admitted only after the oldest
   timestamp it saw has left the window. *)
BlockedUntilOldestLeft ==
    \A i \in DOMAIN admitted :
        admitted[i].blocked_on >= 0 =>
            admitted[i].at >= admitted[i].blocked_on + period

(* C5: with one sequential caller, after any sequence of wait() calls at
   arbitrary arrival times, no window of length period holds more than
   max_calls recorded timestamps, and a caller that arrives at a full window
   is delayed until the oldest timestamp has left it. *)
C5_SequentialRateBound ==
    Cardinality(callers) = 1 => (RateBound /\ BlockedUntilOldestLeft)

C5_Witness ==
    /\ Cardinality(callers) = 1
    /\ max_calls = 2
    /\ Len(admitted) >= 3
    /\ admitted[3].blocked_on >= 0

(* C6: the rate bound holds when two or more callers run wait() with their
   steps interleaved. *)
C6_ConcurrentRateBound ==
    Cardinality(callers) >= 2 => RateBound

(* The running or finished call has seen nothing but 429 responses. *)
Only429 == \A i \in DOMAIN responses : responses[i].kind = "429"

(* C3: a 429 is always retried and never uses up the attempt budget: 429
   responses alone never make fetch raise. *)
C3_RateLimitedNeverRaises ==
    (f_pc = "raised" /\ max_retries >= 1) => ~Only429

(* C4: one call of fetch issues at most max_retries HTTP attempts and then
   ends, returning the body or raising: while the call is still going fewer
   than max_retries attempts were made, and a call that made max_retries
   attempts has ended or is in its last sleep, after which it raises. *)
C4_BoundedAttempts ==
    /\ Len(responses) <= max_retries
    /\ f_pc = "try" => Len(responses) < max_retries
    /\ f_pc = "backoff" => attempt <= max_retries
    /\ f_pc = "returned" => responses[Len(responses)].kind = "2xx"
    /\ f_pc = "raised" => f_error \in {"RequestException", "HTTPError", "RuntimeError"}

C4_Witness ==
    /\ f_pc = "raised"
    /\ max_retries = 3
    /\ Len(responses) = 3
    /\ responses[1].kind = "neterr"
    /\ responses[2].kind = "429"
    /\ responses[3].kind = "5xx"

(***************************************************************************)
(* The pages a walk from page 1 meets by following next links: their       *)
(* number when some page has no next link, and whether there is such a     *)
(* page.  A chain of more than NumPages pages has met a page twice.        *)
(***************************************************************************)
RECURSIVE ChainEnds(_, _)
ChainEnds(p, fuel) ==
    IF site_next[p] = 0 THEN TRUE
    ELSE IF fuel = 0 THEN FALSE
    ELSE ChainEnds(site_next[p], fuel - 1)

RECURSIVE ChainLength(_, _)
ChainLength(p, fuel) ==
    IF site_next[p] = 0 \/ fuel = 0 THEN 1
    ELSE 1 + ChainLength(site_next[p], fuel - 1)

Cyclic == ~ChainEnds(1, NumPages)

WalkEnded == walk_pc \in {"done", "raised"}

(* C7: with max_pages = None, get_thread_pages and get_thread_list end on a
   page sequence that contains a cycle. *)
C7_CycleWalkEnds ==
    (walk_fn \in {"list", "pages"} /\ Cyclic /\ IsNone(max_pages)) => <>WalkEnded

(* C8: for max_pages >= 1, on a site where every page has a next link (a
   cycle included) get_thread_pages returns exactly max_pages URLs, the
   first being thread_url, after exactly max_pages - 1 fetches; in general
   it returns min(max_pages, pages reachable until a next link is absent)
   URLs. *)
C8_PagesWalkLength ==
    (walk_fn = "pages" /\ walk_pc = "done" /\ ~IsNone(max_pages)
        /\ ValueOf(max_pages) >= 1) =>
            /\ pages[1] = PageUrl(1)
            /\ Cyclic => /\ Len(pages) = ValueOf(max_pages)
                         /\ walk_fetches = ValueOf(max_pages) - 1
            /\ ~Cyclic => Len(pages) = Min(ValueOf(max_pages),
                                           ChainLength(1, NumPages))

C8_Witness ==
    /\ walk_fn = "pages"
    /\ walk_pc = "done"
    /\ max_pages = <<3>>
    /\ site_next[1] = 2 /\ site_next[2] = 1
    /\ Len(pages) = 3
    /\ pages[3] = pages[1]
    /\ walk_fetches = 2

Range(f) == {f[i] : i \in DOMAIN f}

(* C9: the list get_thread_list builds never holds two equal URLs, every
   entry is an absolute URL, and the order is discovery order: a card whose
   absolute URL is new is appended at the end, a card whose URL is already
   there changes nothing, and no entry ever moves. *)
C9_DedupDiscoveryOrder ==
    /\ [](walk_fn = "list" =>
            /\ \A i, j \in DOMAIN ordered_threads :
                  i # j => ordered_threads[i] # ordered_threads[j]
            /\ \A i \in DOMAIN ordered_threads :
                  Head(ordered_threads[i]) = "http"
            /\ Range(ordered_threads) = seen)
    /\ [][walk_fn = "list" =>
            IF cards_done' = cards_done + 1
            THEN /\ url' \in Range(ordered_threads')
                 /\ ordered_threads' =
                       IF url' \in Range(ordered_threads)
                       THEN ordered_threads
                       ELSE Append(ordered_threads, url')
            ELSE ordered_threads' = ordered_threads]_vars

C9_Witness ==
    /\ walk_fn = "list"
    /\ page >= 2
    /\ walk_pc = "cards"
    /\ cards_done = 2
    /\ Len(ordered_threads) = 3
    /\ url = ordered_threads[1]

(* C10: for thread_limit >= 0 and max_pages >= 0, get_thread_list returns at
   most thread_limit URLs and fetches at most max_pages index pages. *)
C10_LimitsRespected ==
    (walk_fn = "list" /\ walk_pc = "done") =>
        /\ ~IsNone(thread_limit) => Len(ordered_threads) <= ValueOf(thread_limit)
        /\ ~IsNone(max_pages) => walk_fetches <= ValueOf(max_pages)

(* C1: in scrape_thread a failed fetch of a thread page, or a failure while
   the author of a post is resolved, does not abort the thread: scrape_thread
   is never left by the exception of fetch(page_url) or of
   get_or_fetch_user. *)
C1_FailureDoesNotAbort ==
    st_pc = "raised" => st_cause \notin {"fetch", "get_or_fetch_user"}

(* C2: over all the posts and threads of a run, which share one cache,
   fetch_user_profile goes to the network at most once per user_id, also
   after a resolution of that user_id that raised. *)
C2_OneResolutionPerUser ==
    \A id \in Digits : resolutions[id] <= 1

(* C11: a quote is resolved only against the posts before the quoting post
   in traversal order: a quote interaction has a target_user_id only when a
   post with its target_post_id stands in all_posts before a post with its
   replying_post_id; a quote of the quoting post itself, or of a later post,
   has none. *)
C11_NoForwardReference ==
    \A k \in DOMAIN interactions :
        (/\ interactions[k].interaction_type = "quote"
         /\ interactions[k].target_user_id # None) =>
            \E i, j \in DOMAIN all_posts :
                /\ i < j
                /\ all_posts[i].post_id = interactions[k].target_post_id
                /\ all_posts[j].post_id = interactions[k].replying_post_id

(* C12: every interaction of a thread has a replying_post_id, which is the
   post_id of one of the thread's posts; and a post without a post_id adds
   its row to the posts and nothing to the interactions, whatever it quotes
   and mentions. *)
C12_InteractionsHaveReplyingPost ==
    /\ [](\A k \in DOMAIN interactions :
            /\ Truthy(interactions[k].replying_post_id)
            /\ \E i \in DOMAIN all_posts :
                   all_posts[i].post_id = interactions[k].replying_post_id)
    /\ [][(st_pc = "resolve" /\ st_pc' = "posts"
              /\ ~Truthy(cur_post.post_id)) =>
             /\ Len(all_posts') = Len(all_posts) + 1
             /\ all_posts'[Len(all_posts')].post_id = cur_post.post_id
             /\ interactions' = interactions]_vars

(* A thread returned with two posts: the first quoted and mentioned, the
   second had no post_id, and both interactions are the first post's. *)
C12_Witness ==
    /\ st_pc = "returned"
    /\ Len(all_posts) = 2
    /\ all_posts[1].post_id = "p1"
    /\ all_posts[2].post_id = None
    /\ Len(interactions) = 2
    /\ interactions[1].interaction_type = "quote"
    /\ interactions[2].interaction_type = "mention"

(* C13: every interaction is a quote or a mention, a quote has confidence
   1.0 and a mention 0.7 (10 and 7 tenths), and a post with a post_id adds
   one quote interaction for each of its quote targets, in their order and
   with their target_post_id. *)
C13_TypesAndConfidence ==
    /\ [](\A k \in DOMAIN interactions :
            /\ interactions[k].interaction_type \in {"quote", "mention"}
            /\ interactions[k].interaction_type = "quote" =>
                   interactions[k].confidence = 10
            /\ interactions[k].interaction_type = "mention" =>
                   interactions[k].confidence = 7)
    /\ [][(st_pc = "resolve" /\ st_pc' = "posts"
              /\ Truthy(cur_post.post_id)) =>
             LET added == SubSeq(interactions', Len(interactions) + 1,
                                 Len(interactions'))
                 quotes == cur_post.quotes
             IN  /\ Cardinality({k \in DOMAIN added :
                         added[k].interaction_type = "quote"}) = Len(quotes)
                 /\ \A k \in DOMAIN quotes :
                        /\ added[k].interaction_type = "quote"
                        /\ added[k].replying_post_id = cur_post.post_id
                        /\ added[k].target_post_id = quotes[k].target_post_id]_vars

(* The first post of a thread quoted two posts and mentioned a member. *)
C13_Witness ==
    /\ Len(all_posts) = 1
    /\ Len(interactions) = 3
    /\ interactions[1].interaction_type = "quote"
    /\ interactions[1].target_post_id = "p1"
    /\ interactions[2].interaction_type = "quote"
    /\ interactions[2].target_post_id = "p2"
    /\ interactions[3].interaction_type = "mention"
    /\ interactions[3].confidence = 7

(* C14: when the resolution of a post's author fails with a fetch error and
   the author's profile URL carries a user id, the post still gets its row:
   the last row of all_posts then has the user_id of the URL and the
   username of the fragment. *)
C14_FailedResolutionKeepsPost ==
    (/\ st_pc = "raised"
     /\ st_cause = "get_or_fetch_user"
     /\ extract_user_id_from_profile_url(cur_post.profile_url) # None) =>
        /\ all_posts # <<>>
        /\ all_posts[Len(all_posts)].post_id = cur_post.post_id
        /\ all_posts[Len(all_posts)].user_id =
               extract_user_id_from_profile_url(cur_post.profile_url)
        /\ all_posts[Len(all_posts)].username = cur_post.username

(* C15: a 4xx response other than 429 makes fetch raise at once, on
   whatever attempt it arrives: it is the last response of the call, the
   call has raised the HTTP error, and no sleep follows it (every sleep of
   the call followed an earlier response). *)
C15_ClientErrorRaisesAtOnce ==
    \A i \in DOMAIN responses :
        responses[i].kind = "4xx" =>
            /\ i = Len(responses)
            /\ f_pc = "raised"
            /\ f_error = "HTTPError"
            /\ Len(sleeps) = Len(responses) - 1
            /\ \A k \in DOMAIN sleeps : sleeps[k].after # "4xx"

(* A 4xx on the second of three attempts. *)
C15_Witness ==
    /\ f_pc = "raised"
    /\ max_retries = 3
    /\ Len(responses) = 2
    /\ responses[1].kind = "5xx"
    /\ responses[2].kind = "4xx"
    /\ Len(sleeps) = 1

(* Every response of the call so far was a network-level failure or a 5xx. *)
AllTransient ==
    \A i \in DOMAIN responses : responses[i].kind \in {"neterr", "5xx"}

(* C16: a call of fetch whose attempts all end in a network-level failure or
   a 5xx makes exactly max_retries attempts, none fewer, and then raises the
   error of the last one; and a call returns on the first 2xx, after as many
   attempts as that response's number. *)
C16_TransientFailuresAndFirstSuccess ==
    /\ (AllTransient /\ f_pc \in {"try", "backoff"}) =>
           Len(responses) < max_retries
    /\ (AllTransient /\ f_pc = "raised" /\ max_retries >= 1) =>
           /\ Len(responses) = max_retries
           /\ f_error = IF responses[Len(responses)].kind = "neterr"
                         THEN "RequestException" ELSE "HTTPError"
    /\ f_pc = "returned" =>
           /\ responses[Len(responses)].kind = "2xx"
           /\ \A i \in 1..(Len(responses) - 1) : responses[i].kind # "2xx"
           /\ attempt = Len(responses)
           /\ Len(responses) <= max_retries

(* Three attempts that all failed, the last one at the network level. *)
C16_Witness ==
    /\ f_pc = "raised"
    /\ max_retries = 3
    /\ Len(responses) = 3
    /\ responses[1].kind = "neterr"
    /\ responses[2].kind = "5xx"
    /\ responses[3].kind = "neterr"
    /\ f_error = "RequestException"

(* C17: the runner catches the exception of a thread: nothing of a skipped
   thread is written, the step that skips it leaves the files alone and goes
   on with the loop where it was, so that the run only finishes after every
   thread of the list was scraped or skipped; and the run is fatally ended
   by get_thread_list only, before any thread. *)
C17_ThreadFailureIsolated ==
    /\ [](\A k \in DOMAIN thread_results :
            thread_results[k] = "skipped" =>
                \A e \in DOMAIN emitted :
                    emitted[e].thread_url # thread_urls[k])
    /\ [](r_pc = "finished" =>
            /\ thread_i = Len(thread_urls)
            /\ Len(thread_results) = Len(thread_urls))
    /\ [](r_pc = "fatal" => thread_urls = <<>> /\ thread_results = <<>>)
    /\ [][(st_pc = "raised" /\ st_pc' = "idle") =>
             /\ r_pc' = "loop"
             /\ thread_i' = thread_i
             /\ emitted' = emitted]_vars

(* The first thread of two raised and was skipped, the second was scraped
   and its rows were written. *)
C17_Witness ==
    /\ r_pc = "finished"
    /\ thread_results = <<"skipped", "written">>
    /\ Len(emitted) = 1
    /\ emitted[1].thread_url = thread_urls[2]
    /\ emitted[1].posts >= 1

(***************************************************************************)
(* C18: a call of get_or_fetch_user or fetch_user_profile whose profile    *)
(* reference is empty, or ends in neither ".<digits>" nor "/<digits>",     *)
(* makes no request, leaves user_cache as it was at the call, does not     *)
(* raise, and returns None.                                                *)
(***************************************************************************)
NoTrailingId(profile_url) ==
    LET s == DropOneSlash(profile_url)
    IN  \/ profile_url = <<>>
        \/ Len(s) < 2
        \/ ~(s[Len(s)] \in Digits /\ s[Len(s) - 1] \in {".", "/"})

C18_NoIdNoFetchNoCacheChange ==
    \A r \in Resolvers :
        rs_pc[r] # "idle" /\ NoTrailingId(rs_url[r])
        => /\ rs_pc[r] \in {"entered", "returned"}
           /\ rs_result[r] = NoUser
           /\ rs_fetched[r] = <<>>
           /\ user_cache = rs_cache_at_call[r]

C18_Witness ==
    /\ rs_pc[1] = "returned"
    /\ rs_fn[1] = "fetch_user_profile"
    /\ rs_url[1] = Ghost
    /\ rs_result[1] = NoUser
    /\ user_cache # EmptyDict

(***************************************************************************)
(* C19: a call that goes to the network asks for the About tab, then the   *)
(* profile page, then the tooltip, never in another order; it always asks  *)
(* for the first two, and it asks for the tooltip exactly when the profile *)
(* page failed, came empty, or carried no counter, join date or role.      *)
(***************************************************************************)
FetchOrder == <<"about", "profile", "tooltip">>

ProfileInsufficient(net) == net.profile \in {"fail", "empty", "thin"}

CacheMiss(r) ==
    /\ ~NoTrailingId(rs_url[r])
    /\ \/ rs_fn[r] = "fetch_user_profile"
       \/ extract_user_id_from_profile_url(rs_url[r])
              \notin DOMAIN rs_cache_at_call[r]

C19_AboutProfileThenTooltip ==
    \A r \in Resolvers :
        /\ Len(rs_fetched[r]) <= 3
        /\ rs_fetched[r] = SubSeq(FetchOrder, 1, Len(rs_fetched[r]))
        /\ rs_pc[r] \in {"store", "returned", "raised"} /\ CacheMiss(r)
           => /\ Len(rs_fetched[r]) >= 2
              /\ Len(rs_fetched[r]) = 3 <=> ProfileInsufficient(rs_net[r])

C19_Witness ==
    /\ rs_pc[1] = "returned"
    /\ rs_net[1].about = "fail"
    /\ rs_net[1].profile = "thin"
    /\ rs_fetched[1] = FetchOrder
    /\ rs_result[1] # NoUser

(***************************************************************************)
(* C20: when scrape_thread returns from the two-page thread, it returns    *)
(* three post rows; one quote interaction, from P2 to P1 and to A's id;    *)
(* one mention interaction, from P3 to A's id and to no post; and the      *)
(* cache holds A's id, with A's record, resolved over the network once.    *)
(***************************************************************************)
Select(seq, type) ==
    {i \in DOMAIN seq : seq[i].interaction_type = type}

C20_TwoPageScenario ==
    st_pc = "returned" =>
        /\ Len(all_posts) = 3
        /\ \A i \in 1..3 : all_posts[i].post_id = <<"p1", "p2", "p3">>[i]
        /\ Len(interactions) = 2
        /\ Cardinality(Select(interactions, "quote")) = 1
        /\ \A i \in Select(interactions, "quote") :
              /\ interactions[i].replying_post_id = "p2"
              /\ interactions[i].target_post_id = "p1"
              /\ interactions[i].target_user_id = "17"
        /\ Cardinality(Select(interactions, "mention")) = 1
        /\ \A i \in Select(interactions, "mention") :
              /\ interactions[i].replying_post_id = "p3"
              /\ interactions[i].target_post_id = None
              /\ interactions[i].target_user_id = "17"
        /\ "17" \in DOMAIN user_cache
        /\ user_cache["17"].user_id = "17"
        /\ DOMAIN user_cache \subseteq
              {all_posts[i].user_id : i \in 1..3}
        /\ resolutions["17"] = 1

C20_Witness ==
    /\ st_pc = "returned"
    /\ Len(pages) = 2
    /\ all_posts[1].page_url = pages[1]
    /\ all_posts[3].page_url = pages[2]
    /\ all_posts[3].user_id = "17"
    /\ DOMAIN user_cache = {"17"}

(***************************************************************************)
(* C21: a call on a URL whose path ends in the digits d, with or without   *)
(* trailing slashes, returns d; a call on a URL whose path does not end in *)
(* digits returns a non-empty id, and two calls on the same URL return the *)
(* same id.                                                                *)
(***************************************************************************)
C21_ThreadIdFromUrl ==
    \A i \in DOMAIN tid_calls :
        /\ \A stem \in ThreadStems, sep \in ThreadSeps, d \in ThreadDigits,
              tail \in ThreadTails :
              tid_calls[i].thread_url = MakeThreadUrl(stem, sep, d, tail)
              => tid_calls[i].thread_id = <<d>>
        /\ tid_calls[i].thread_id # <<>>
        /\ \A j \in DOMAIN tid_calls :
              tid_calls[j].thread_url = tid_calls[i].thread_url
              => tid_calls[j].thread_id = tid_calls[i].thread_id

C21_Witness ==
    /\ Len(tid_calls) = 2
    /\ tid_calls[1].thread_url = MakeThreadUrl(<<"foo">>, <<".">>, "123", <<"/">>)
    /\ tid_calls[2].thread_url = MakeThreadUrl(<<"foo">>, <<".">>, "123", <<>>)
    /\ tid_calls[1].thread_id = <<"123">>
    /\ tid_calls[2].thread_id = <<"123">>

(***************************************************************************)
(* C22: of the resolvers that run get_or_fetch_user on the one cache, at   *)
(* most one at a time is between its cache lookup and its store for any    *)
(* one user_id.                                                            *)
(***************************************************************************)
InFlight(r) == rs_pc[r] \in {"about", "profile", "tooltip", "store"}

C22_OneResolutionInFlight ==
    \A r1, r2 \in Resolvers :
        /\ r1 # r2
        /\ InFlight(r1)
        /\ InFlight(r2)
        => extract_user_id_from_profile_url(rs_url[r1])
              # extract_user_id_from_profile_url(rs_url[r2])

(***************************************************************************)
(* C23: a call of get_or_fetch_user whose user_id was a key of the cache   *)
(* when it was made returns the record stored under that key, makes no     *)
(* request and leaves the cache as it was, whatever URL filled the entry.  *)
(***************************************************************************)
CachedAtCall(r) ==
    /\ rs_fn[r] = "get_or_fetch_user"
    /\ \E id \in Digits :
          /\ id \in DOMAIN rs_cache_at_call[r]
          /\ rs_url[r] \in {u \in ProfileUrls : \E k \in DOMAIN u : u[k] = id}

C23_CacheHitShortCircuits ==
    \A r \in Resolvers :
        CachedAtCall(r) /\ rs_pc[r] # "entered"
        => /\ rs_pc[r] = "returned"
           /\ \E id \in DOMAIN rs_cache_at_call[r] :
                 /\ rs_result[r] = rs_cache_at_call[r][id]
                 /\ rs_result[r].user_id = id
                 /\ \E k \in DOMAIN rs_url[r] : rs_url[r][k] = id
           /\ rs_fetched[r] = <<>>
           /\ user_cache = rs_cache_at_call[r]

C23_Witness ==
    /\ rs_pc[1] = "returned"
    /\ rs_fn[1] = "get_or_fetch_user"
    /\ rs_url[1] = AliceSlash
    /\ rs_net[1].profile = "full"
    /\ "17" \in DOMAIN rs_cache_at_call[1]
    /\ rs_result[1].profile_url = AliceDot
    /\ rs_fetched[1] = <<>>

(***************************************************************************)
(* C24: a call whose tooltip request failed ends with the exception at its *)
(* caller, returns no record, and leaves the cache as it was when the call *)
(* was made.                                                               *)
(***************************************************************************)
TooltipFailed(r) ==
    /\ Len(rs_fetched[r]) = 3
    /\ rs_fetched[r][3] = "tooltip"
    /\ rs_net[r].tooltip = "fail"

C24_TooltipFailurePropagates ==
    \A r \in Resolvers :
        TooltipFailed(r)
        => /\ rs_pc[r] = "raised"
           /\ rs_result[r] = NoUser
           /\ user_cache = rs_cache_at_call[r]

C24_Witness ==
    /\ rs_pc[1] = "raised"
    /\ rs_fn[1] = "get_or_fetch_user"
    /\ rs_url[1] = AliceDot
    /\ rs_net[1].profile = "thin"
    /\ DOMAIN user_cache = {"42"}

(***************************************************************************)
(* C25: a call whose About request failed asks for the profile page all    *)
(* the same, raises only if its tooltip request failed, and ends as the    *)
(* call ends to which the About tab gave no field: same exception or       *)
(* record, same requests.                                                  *)
(***************************************************************************)
AboutFailed(r) ==
    /\ rs_fetched[r] # <<>>
    /\ rs_net[r].about = "fail"

WithEmptyAbout(r) ==
    fetch_user_profile(rs_url[r], [rs_net[r] EXCEPT !.about = "plain"])

C25_AboutFailureIsNotFatal ==
    \A r \in Resolvers :
        AboutFailed(r) /\ rs_pc[r] \in {"store", "returned", "raised"}
        => /\ Len(rs_fetched[r]) >= 2
           /\ rs_fetched[r][2] = "profile"
           /\ rs_pc[r] = "raised" => TooltipFailed(r)
           /\ rs_pc[r] # "raised" => rs_result[r] # NoUser
           /\ (rs_pc[r] = "raised") = WithEmptyAbout(r).raised
           /\ rs_result[r] = WithEmptyAbout(r).user
           /\ rs_fetched[r] = WithEmptyAbout(r).fetched

C25_Witness ==
    /\ rs_pc[1] = "returned"
    /\ rs_net[1].about = "fail"
    /\ rs_net[1].profile = "thin"
    /\ rs_fetched[1] = <<"about", "profile", "tooltip">>
    /\ rs_result[1].user_id = "42"
    /\ rs_result[1].location = None

(***************************************************************************)
(* C26: the record a call brings from the network is the record its tier   *)
(* parsed (the profile page after two requests, the tooltip after three),  *)
(* except that a field the About tab gave holds the About tab's value; a   *)
(* field the About tab did not give keeps the tier's value, and user_id is *)
(* the tier's.                                                             *)
(***************************************************************************)
TierRecord(r) ==
    LET user_id == extract_user_id_from_profile_url(rs_url[r])
    IN  IF Len(rs_fetched[r]) = 2
        THEN parse_user_profile_page(rs_net[r], rs_url[r], user_id)
        ELSE parse_user_tooltip(rs_net[r], rs_url[r], user_id)

C26_AboutMergedIntoEitherTier ==
    \A r \in Resolvers :
        rs_pc[r] \in {"store", "returned"} /\ rs_fetched[r] # <<>>
        => /\ rs_result[r].location =
                 IF rs_net[r].about = "location"
                 THEN "about-loc"
                 ELSE TierRecord(r).location
           /\ rs_result[r] =
                 [TierRecord(r) EXCEPT !.location = rs_result[r].location]
           /\ rs_result[r].user_id = TierRecord(r).user_id
           /\ rs_result[r].user_id \in Digits

C26_Witness ==
    /\ rs_pc[1] = "returned"
    /\ rs_net[1].about = "location"
    /\ rs_net[1].profile = "full"
    /\ rs_fetched[1] = <<"about", "profile">>
    /\ TierRecord(1).location = "header-loc"
    /\ rs_result[1].location = "about-loc"

(***************************************************************************)
(* C27: the quote interactions a post adds carry, each for its quote       *)
(* target, the target_post_id of the target and, as target_user_id, the    *)
(* user_id the index holds under that id, the index being the one the      *)
(* builder is given; without a target id, or with one the index does not   *)
(* hold, target_user_id is None, the quoted username notwithstanding.      *)
(***************************************************************************)
C27_QuoteTargetFromIndex ==
    [][(st_pc = "resolve" /\ st_pc' = "posts" /\ Truthy(cur_post.post_id)) =>
         LET added == SubSeq(interactions', Len(interactions) + 1,
                             Len(interactions'))
             quotes == cur_post.quotes
             index == post_author_index'
         IN  \A k \in DOMAIN quotes :
                 /\ added[k].target_post_id = quotes[k].target_post_id
                 /\ quotes[k].target_post_id = None
                    => added[k].target_user_id = None
                 /\ quotes[k].target_post_id # None
                    /\ quotes[k].target_post_id \notin DOMAIN index
                    => added[k].target_user_id = None
                 /\ quotes[k].target_post_id # None
                    /\ quotes[k].target_post_id \in DOMAIN index
                    => added[k].target_user_id
                          = index[quotes[k].target_post_id].user_id]_vars

(* The first post of a thread, by member 17, quoted a post the thread had
   not shown, whose author the quote names; the second post quoted the
   first. *)
C27_Witness ==
    /\ Len(all_posts) = 2
    /\ all_posts[1].post_id = "p2"
    /\ all_posts[1].user_id = "17"
    /\ all_posts[2].post_id = "p1"
    /\ Len(interactions) = 2
    /\ interactions[1].replying_post_id = "p2"
    /\ interactions[1].target_post_id = "p1"
    /\ interactions[1].target_user_id = None
    /\ interactions[2].replying_post_id = "p1"
    /\ interactions[2].target_post_id = "p2"
    /\ interactions[2].target_user_id = "17"

(***************************************************************************)
(* C28: a post with a post_id adds one mention interaction for each of its *)
(* mentions that has a user id, its own or in its profile URL, or a        *)
(* username, in their order and with that user id; it adds none for a      *)
(* mention that has neither; a post without a post_id adds none; and every *)
(* mention interaction has target_post_id None.                            *)
(***************************************************************************)
UrlDigits(u) == {u[k] : k \in DOMAIN u} \cap Digits

MentionedId(mention) ==
    IF mention.user_id # None
    THEN mention.user_id
    ELSE IF UrlDigits(mention.profile_url) # {}
         THEN CHOOSE id \in UrlDigits(mention.profile_url) : TRUE
         ELSE None

HasSignal(mention) ==
    MentionedId(mention) # None \/ mention.username \notin {None, ""}

C28_OneInteractionPerMention ==
    /\ [](\A k \in DOMAIN interactions :
            interactions[k].interaction_type = "mention"
            => interactions[k].target_post_id = None)
    /\ [][(st_pc = "resolve" /\ st_pc' = "posts") =>
             LET added == SubSeq(interactions', Len(interactions) + 1,
                                 Len(interactions'))
                 rows == SelectSeq(added,
                             LAMBDA row : row.interaction_type = "mention")
                 signal == SelectSeq(cur_post.mentions, HasSignal)
             IN  IF cur_post.post_id \in {None, ""}
                 THEN rows = <<>>
                 ELSE /\ Len(rows) = Len(signal)
                      /\ \A k \in DOMAIN signal :
                            /\ rows[k].replying_post_id = cur_post.post_id
                            /\ rows[k].target_user_id = MentionedId(signal[k])]_vars

(* The only post of a thread mentioned a member by name through a link
   without an id: the interaction has no target user. *)
C28_Witness ==
    /\ st_pc = "returned"
    /\ Len(all_posts) = 1
    /\ all_posts[1].post_id = "p1"
    /\ Len(interactions) = 2
    /\ interactions[1].interaction_type = "mention"
    /\ interactions[1].target_user_id = None
    /\ interactions[2].interaction_type = "mention"
    /\ interactions[2].target_user_id = "42"

(***************************************************************************)
(* C29: a call of scrape_thread starts with an empty post_author_index and *)
(* with the user_cache the runner holds; the index holds only post ids of  *)
(* the rows of the call; a quote whose target is not among them gets       *)
(* target_user_id None; and the cache keeps every entry from one thread to *)
(* the next, changing only where a post's author is resolved.              *)
(***************************************************************************)
RowIds(rows) == {rows[k].post_id : k \in DOMAIN rows}

C29_IndexIsThreadScoped ==
    /\ [](DOMAIN post_author_index \subseteq RowIds(all_posts))
    /\ [][(r_pc = "loop" /\ r_pc' = "thread") =>
             /\ post_author_index' = EmptyDict
             /\ user_cache' = user_cache]_vars
    /\ [][(st_pc = "resolve" /\ st_pc' = "posts") =>
             LET added == SubSeq(interactions', Len(interactions) + 1,
                                 Len(interactions'))
             IN  \A k \in DOMAIN added :
                     added[k].target_post_id \notin RowIds(all_posts')
                     => added[k].target_user_id = None]_vars
    /\ [][/\ \A id \in DOMAIN user_cache :
                 id \in DOMAIN user_cache' /\ user_cache'[id] = user_cache[id]
           /\ user_cache' # user_cache => st_pc = "resolve"]_vars

(* The first thread showed p1, by member 17, and was written; the second
   shows p2, by a guest, whose quote of p1 finds no author, while member 17
   is still in the cache. *)
C29_Witness ==
    /\ thread_i = 2
    /\ thread_results = <<"written">>
    /\ emitted[1].posts = 1
    /\ Len(all_posts) = 1
    /\ all_posts[1].post_id = "p2"
    /\ all_posts[1].user_id = None
    /\ Len(interactions) = 1
    /\ interactions[1].target_post_id = "p1"
    /\ interactions[1].target_user_id = None
    /\ DOMAIN user_cache = {"17"}

(***************************************************************************)
(* C30: once the limiter exists it is never replaced: no step of           *)
(* configure_rate_limiter or fetch drops from the window a timestamp that  *)
(* is still within the period, so every fetch waits on the same window.    *)
(***************************************************************************)
Stamps(q) == {q[k] : k \in DOMAIN q}

C30_LimiterNeverReset ==
    [][\A t \in Stamps(calls) :
           clock' - t < period => t \in Stamps(calls')]_vars

(***************************************************************************)
(* C31: with max_pages = None, on a chain of pages whose last page has no  *)
(* next link get_thread_pages and get_thread_list end; get_thread_pages,   *)
(* when it returns, returns the pages of the chain once each in the order  *)
(* of the chain and has fetched each of them once.                         *)
(***************************************************************************)
Acyclic == ChainEnds(1, NumPages)

(* The URLs of the pages from page p on, as the next links chain them. *)
RECURSIVE ChainFrom(_, _)
ChainFrom(p, fuel) ==
    IF site_next[p] = 0 \/ fuel = 0 THEN <<PageUrl(p)>>
    ELSE <<PageUrl(p)>> \o ChainFrom(site_next[p], fuel - 1)

ChainPages == ChainFrom(1, NumPages)

C31_AcyclicWalkEnds ==
    /\ (walk_fn \in {"list", "pages"} /\ Acyclic /\ IsNone(max_pages))
           => <>WalkEnded
    /\ []((walk_fn = "pages" /\ walk_pc = "done" /\ Acyclic
              /\ IsNone(max_pages)) =>
                /\ pages = ChainPages
                /\ walk_fetches = ChainLength(1, NumPages))

(* get_thread_pages has returned the three pages of a chain of three. *)
C31_Witness ==
    /\ walk_fn = "pages"
    /\ walk_pc = "done"
    /\ IsNone(max_pages)
    /\ site_next = <<2, 3, 0>>
    /\ pages = <<PageUrl(1), PageUrl(2), PageUrl(3)>>
    /\ walk_fetches = 3

C33_CacheKeyedByAuthorId ==
    /\ [](\A id \in DOMAIN user_cache :
              /\ user_cache[id].user_id = id
              /\ extract_user_id_from_profile_url(user_cache[id].profile_url)
                     = id)
    /\ [][\A id \in DOMAIN user_cache :
              id \in DOMAIN user_cache' /\ user_cache'[id] = user_cache[id]]_vars
    /\ [][\A id \in DOMAIN user_cache' \ DOMAIN user_cache :
              /\ st_pc = "resolve"
              /\ id = extract_user_id_from_profile_url(
                          cur_post.profile_url)]_vars

(* A post of member 17 that mentions member 42 has been processed: 17 is in
   the cache, 42 is the target of the interaction and is not in the cache. *)
C33_Witness ==
    /\ Len(all_posts) = 1
    /\ all_posts[1].user_id = "17"
    /\ Len(interactions) = 1
    /\ interactions[1].interaction_type = "mention"
    /\ interactions[1].target_user_id = "42"
    /\ DOMAIN user_cache = {"17"}
    /\ user_cache["17"].profile_url = AliceDot

=============================================================================
